---- MODULE Spec2Model ----
(***************************************************************************)
(* Calculation-flow analysis of the numeriq add-in                         *)
(* (src/src/utils/calculationFlow.ts).  Text is modelled as a sequence of  *)
(* one-character strings, so that the regular expressions of the source    *)
(* are matched character by character.                                     *)
(***************************************************************************)
EXTENDS Integers, Sequences, FiniteSets, TLC

(***************************************************************************)
(* Text helpers: the JavaScript string operations the source relies on.    *)
(***************************************************************************)
Upper == <<"A","B","C","D","E","F","G","H","I","J","K","L","M",
           "N","O","P","Q","R","S","T","U","V","W","X","Y","Z">>

Lower == <<"a","b","c","d","e","f","g","h","i","j","k","l","m",
           "n","o","p","q","r","s","t","u","v","w","x","y","z">>

Digits == <<"0","1","2","3","4","5","6","7","8","9">>

Range(s) == {s[i] : i \in DOMAIN s}

Letters == Range(Upper) \cup Range(Lower)
DigitChars == Range(Digits)

\* [A-Z] under the i flag
IsLetter(ch) == ch \in Letters

\* \d
IsDigit(ch) == ch \in DigitChars

\* \w
IsWord(ch) == IsLetter(ch) \/ IsDigit(ch) \/ ch = "_"

\* String.prototype.charCodeAt for a letter
charCodeAt(ch) ==
  IF ch \in Range(Upper)
    THEN 64 + (CHOOSE i \in DOMAIN Upper : Upper[i] = ch)
    ELSE 96 + (CHOOSE i \in DOMAIN Lower : Lower[i] = ch)

\* String.fromCharCode for the codes of A..Z
fromCharCode(n) == Upper[n - 64]

\* the character of s at 1-based position i, "" past the end
At(s, i) == IF i \in DOMAIN s THEN s[i] ELSE ""

\* the first position >= i of s that holds ch, Len(s)+1 when there is none
RECURSIVE IndexFrom(_, _, _)
IndexFrom(s, ch, i) ==
  IF i > Len(s) THEN Len(s) + 1
  ELSE IF s[i] = ch THEN i
  ELSE IndexFrom(s, ch, i + 1)

\* String.prototype.includes for one character
Includes(s, ch) == IndexFrom(s, ch, 1) <= Len(s)

\* String.prototype.split on one character
RECURSIVE Split(_, _)

\* the split of s whose first occurrence of ch is at position k
SplitAt(s, ch, k) ==
  IF k > Len(s) THEN <<s>>
  ELSE <<SubSeq(s, 1, k - 1)>> \o Split(SubSeq(s, k + 1, Len(s)), ch)

Split(s, ch) == SplitAt(s, ch, IndexFrom(s, ch, 1))

\* the end (exclusive) of the longest run of characters satisfying P from i
RECURSIVE LetterRun(_, _)
LetterRun(s, i) == IF IsLetter(At(s, i)) THEN LetterRun(s, i + 1) ELSE i

RECURSIVE DigitRun(_, _)
DigitRun(s, i) == IF IsDigit(At(s, i)) THEN DigitRun(s, i + 1) ELSE i

RECURSIVE WordRun(_, _)
WordRun(s, i) == IF IsWord(At(s, i)) THEN WordRun(s, i + 1) ELSE i

\* parseInt(digits, 10)
RECURSIVE parseInt(_)
parseInt(s) ==
  IF s = <<>> THEN 0
  ELSE 10 * parseInt(SubSeq(s, 1, Len(s) - 1))
       + ((CHOOSE i \in DOMAIN Digits : Digits[i] = s[Len(s)]) - 1)

\* the decimal text of a natural number (template literal `${row}`)
RECURSIVE NumberToText(_)
NumberToText(n) ==
  IF n < 10 THEN <<Digits[n + 1]>>
  ELSE NumberToText(n \div 10) \o <<Digits[(n % 10) + 1]>>

(***************************************************************************)
(* Address arithmetic (calculationFlow.ts, lines 398-443).                 *)
(***************************************************************************)
\* the value of `undefined` for an optional string
Undefined == <<>>

\* /([A-Z]+)(\d+)/i matches at position i, the letters from i ending at b
CoordsMatchAt(address, i, b) == b > i /\ IsDigit(At(address, b))

\* address.match(/([A-Z]+)(\d+)/i): the first position at which the pattern
\* matches, 0 when it matches nowhere
RECURSIVE CoordsMatchFrom(_, _)
CoordsMatchFrom(address, i) ==
  IF i > Len(address) THEN 0
  ELSE IF CoordsMatchAt(address, i, LetterRun(address, i)) THEN i
  ELSE CoordsMatchFrom(address, i + 1)

\* addressToCoords throws `Invalid cell address`
addressToCoordsThrows(address) == CoordsMatchFrom(address, 1) = 0

RECURSIVE columnToNumberFrom(_, _, _)
columnToNumberFrom(column, i, num) ==
  IF i > Len(column) THEN num
  ELSE columnToNumberFrom(column, i + 1, num * 26 + (charCodeAt(column[i]) - 64))

columnToNumber(column) == columnToNumberFrom(column, 1, 0)

\* lines 407-410 for the match whose letters are address[i..b-1]
CoordsOfMatch(address, i, b) ==
  [row |-> parseInt(SubSeq(address, b, DigitRun(address, b) - 1)),
   col |-> columnToNumber(SubSeq(address, i, b - 1))]

CoordsOfMatchAt(address, i) == CoordsOfMatch(address, i, LetterRun(address, i))

\* the coordinates addressToCoords returns when it does not throw
addressToCoords(address) == CoordsOfMatchAt(address, CoordsMatchFrom(address, 1))

RECURSIVE numberToColumnFrom(_, _)
numberToColumnFrom(num, column) ==
  IF num > 0
    THEN numberToColumnFrom((num - 1) \div 26,
                            <<fromCharCode(65 + ((num - 1) % 26))>> \o column)
    ELSE column

numberToColumn(num) == numberToColumnFrom(num, <<>>)

getAddress(row, col) == numberToColumn(col) \o NumberToText(row)

(***************************************************************************)
(* extractPrecedents (calculationFlow.ts, lines 323-338): the matcher of   *)
(*   /(\[.*?\])?(\w+!)?(\$?[A-Z]+\$?\d+(?::\$?[A-Z]+\$?\d+)?)/gi           *)
(* Every *End operator gives the position after the match, 0 for none.     *)
(***************************************************************************)
\* \$? at position i: the position after it
SkipDollar(f, i) == IF At(f, i) = "$" THEN i + 1 ELSE i

\* a `+` repetition from position start that ran to position end
NonEmptyRun(start, end) == IF end > start THEN end ELSE 0

\* \$?\d+ after the letters that ended at b
RowEnd(f, b) ==
  IF b = 0 THEN 0 ELSE NonEmptyRun(SkipDollar(f, b), DigitRun(f, SkipDollar(f, b)))

\* \$?[A-Z]+\$?\d+
CellEnd(f, i) ==
  RowEnd(f, NonEmptyRun(SkipDollar(f, i), LetterRun(f, SkipDollar(f, i))))

\* the first alternative when it matched, the second otherwise
OrElse(first, second) == IF first # 0 THEN first ELSE second

\* a group 3 that stops after its first cell
RangeEnd_CellOnly(f, e) == e

\* (?::\$?[A-Z]+\$?\d+)? after the cell that ended at e
RangeEnd(f, e) ==
  IF e = 0 THEN 0
  ELSE IF At(f, e) = ":" THEN OrElse(CellEnd(f, e + 1), e)
  ELSE e

\* group 3: a cell with an optional `:cell`
AddressEnd(f, i) == RangeEnd(f, CellEnd(f, i))

NoMatch == [ok |-> FALSE, workbook |-> <<>>, sheet |-> <<>>, address |-> <<>>, end |-> 0]

\* the match whose group 2 is f[j..w] and whose group 3 starts at a and
\* ends before end
MatchOf(f, j, w, a, end) ==
  IF end = 0 THEN NoMatch
  ELSE [ok |-> TRUE, workbook |-> <<>>, sheet |-> SubSeq(f, j, w),
        address |-> SubSeq(f, a, end - 1), end |-> end]

FirstMatch(first, second) == IF first.ok THEN first ELSE second

\* (\w+!) with the word run of position j ending at w, then group 3
QualifiedMatch(f, j, w) ==
  IF w > j /\ At(f, w) = "!"
    THEN MatchOf(f, j, w, w + 1, AddressEnd(f, w + 1))
    ELSE NoMatch

\* groups 2 and 3 from position j: first with the sheet qualifier, then without
SheetAddressMatch(f, j) ==
  FirstMatch(QualifiedMatch(f, j, WordRun(f, j)),
             MatchOf(f, j, j - 1, j, AddressEnd(f, j)))

WithWorkbook(match, workbook) ==
  IF match.ok THEN [match EXCEPT !.workbook = workbook] ELSE match

\* group 1, lazy: the nearest `]` at or after k after which the rest matches
RECURSIVE BracketMatch(_, _, _)

BracketMatchAt(f, i, c) ==
  IF c > Len(f) THEN NoMatch
  ELSE FirstMatch(WithWorkbook(SheetAddressMatch(f, c + 1), SubSeq(f, i, c)),
                  BracketMatch(f, i, c + 1))

BracketMatch(f, i, k) == BracketMatchAt(f, i, IndexFrom(f, "]", k))

\* the match of the whole pattern that starts at position i
MatchAt(f, i) ==
  FirstMatch(IF At(f, i) = "[" THEN BracketMatch(f, i, i + 1) ELSE NoMatch,
             SheetAddressMatch(f, i))

\* lines 329-334: the precedent pushed for one match
PrecedentOf(match, currentSheet) ==
  (IF match.sheet # <<>>
     THEN SubSeq(match.sheet, 1, Len(match.sheet) - 1)
     ELSE currentSheet)
  \o <<"!">> \o match.address

\* the while loop over pattern.exec, lastIndex = i - 1
RECURSIVE ExecFrom(_, _, _)

ExecStep(formula, i, currentSheet, match) ==
  IF match.ok
    THEN <<PrecedentOf(match, currentSheet)>> \o ExecFrom(formula, match.end, currentSheet)
    ELSE ExecFrom(formula, i + 1, currentSheet)

ExecFrom(formula, i, currentSheet) ==
  IF i > Len(formula) THEN <<>>
  ELSE ExecStep(formula, i, currentSheet, MatchAt(formula, i))

extractPrecedents(formula, currentSheet) == ExecFrom(formula, 1, currentSheet)

(***************************************************************************)
(* Scope and focus-area tests (calculationFlow.ts, lines 340-396).  A test *)
(* that can throw is a pair: <name>Throws says whether it throws, <name>   *)
(* is its value when it does not.                                          *)
(***************************************************************************)
RangeCornersThrow(cellAddress, parts) ==
  \/ addressToCoordsThrows(parts[1])
  \/ addressToCoordsThrows(parts[2])
  \/ addressToCoordsThrows(cellAddress)

isAddressInRangeThrows(cellAddress, rangeAddress) ==
  /\ Includes(rangeAddress, ":")
  /\ RangeCornersThrow(cellAddress, Split(rangeAddress, ":"))

\* lines 392-395
WithinCorners(cellCoords, startCoords, endCoords) ==
  /\ cellCoords.row >= startCoords.row
  /\ cellCoords.row <= endCoords.row
  /\ cellCoords.col >= startCoords.col
  /\ cellCoords.col <= endCoords.col

InRangeCorners(cellAddress, parts) ==
  WithinCorners(addressToCoords(cellAddress),
                addressToCoords(parts[1]), addressToCoords(parts[2]))

isAddressInRange(cellAddress, rangeAddress) ==
  IF ~Includes(rangeAddress, ":") THEN cellAddress = rangeAddress
  ELSE InRangeCorners(cellAddress, Split(rangeAddress, ":"))

\* parts is address.split('!'): the sheet name and the cell address
InScopeThrows(parts, scope) ==
  /\ scope.type = "range"
  /\ parts[1] = scope.sheetName
  /\ isAddressInRangeThrows(parts[2], scope.rangeAddress)

isInScopeThrows(address, scope) == InScopeThrows(Split(address, "!"), scope)

InScope(parts, scope) ==
  IF scope.type = "workbook" THEN TRUE
  ELSE IF scope.type = "worksheet" THEN parts[1] = scope.sheetName
  ELSE IF scope.type = "range"
    THEN parts[1] = scope.sheetName /\ isAddressInRange(parts[2], scope.rangeAddress)
  ELSE FALSE

isInScope(address, scope) == InScope(Split(address, "!"), scope)

InFocusAreaThrows(parts, focusArea) ==
  /\ ~(focusArea.sheetName # Undefined /\ parts[1] # focusArea.sheetName)
  /\ focusArea.rangeAddress # Undefined
  /\ isAddressInRangeThrows(parts[2], focusArea.rangeAddress)

isInFocusAreaThrows(address, focusArea) ==
  InFocusAreaThrows(Split(address, "!"), focusArea)

InFocusArea(parts, focusArea) ==
  IF focusArea.sheetName # Undefined /\ parts[1] # focusArea.sheetName THEN FALSE
  ELSE IF focusArea.rangeAddress # Undefined
    THEN isAddressInRange(parts[2], focusArea.rangeAddress)
  ELSE TRUE

isInFocusArea(address, focusArea) == InFocusArea(Split(address, "!"), focusArea)

(***************************************************************************)
(* The host workbook the analyzer reads (src/src/types/office.d.ts): two   *)
(* worksheets, S with the columns A and B of MaxRow rows and T with the     *)
(* single cell A1.                                                         *)
(***************************************************************************)
MaxRow == 2
MaxFormulas == 2

\* the columns of sheet S that hold cells
ColumnLetters == <<"A", "B">>
MaxCol == Len(ColumnLetters)

\* workbook.worksheets.items, by name
SheetNames == << <<"S">>, <<"T">> >>

\* the cells of the workbook: <<sheet index, row, column>>
Cells ==
  {<<1, r, c>> : r \in 1..MaxRow, c \in 1..MaxCol} \cup {<<2, 1, 1>>}

\* worksheets.getItem(name): the index of the sheet of that name
getItem(sheetName) == CHOOSE si \in DOMAIN SheetNames : SheetNames[si] = sheetName

\* the formula text of a cell of grid g, "" for a cell that holds nothing
FormulaAt(g, si, r, c) == IF <<si, r, c>> \in DOMAIN g THEN g[<<si, r, c>>] ELSE <<>>

Min(S) == CHOOSE x \in S : \A y \in S : x <= y
Max(S) == CHOOSE x \in S : \A y \in S : x >= y

\* the bounding box of a set of cells, A1 for the empty set
BoundingBox(used) ==
  IF used = {} THEN [top |-> 1, left |-> 1, bottom |-> 1, right |-> 1]
  ELSE [top    |-> Min({cell[2] : cell \in used}),
        left   |-> Min({cell[3] : cell \in used}),
        bottom |-> Max({cell[2] : cell \in used}),
        right  |-> Max({cell[3] : cell \in used})]

\* Worksheet.getUsedRange: the bounding box of the non-empty cells
getUsedRange(g, si) ==
  BoundingBox({cell \in DOMAIN g : cell[1] = si /\ g[cell] # <<>>})

RangeOfCorners(first, last) ==
  [top |-> first.row, left |-> first.col, bottom |-> last.row, right |-> last.col]

RangeOfParts(parts) ==
  RangeOfCorners(addressToCoords(parts[1]), addressToCoords(parts[Len(parts)]))

\* Worksheet.getRange(address) for an address `A1` or `A1:B2`
getRange(address) == RangeOfParts(Split(address, ":"))

\* Range.address: `Sheet!A1` for one cell, `Sheet!A1:B2` otherwise
RangeAddress(sheetName, range) ==
  sheetName \o <<"!">> \o getAddress(range.top, range.left)
  \o (IF range.top = range.bottom /\ range.left = range.right THEN <<>>
      ELSE <<":">> \o getAddress(range.bottom, range.right))

rowCount(range) == range.bottom - range.top + 1
columnCount(range) == range.right - range.left + 1

(***************************************************************************)
(* buildDependencyGraph (calculationFlow.ts, lines 77-151).  The Map is a  *)
(* sequence of entries in insertion order, each with its key.              *)
(***************************************************************************)
\* Map.get: the position of the entry of that key, 0 when there is none
RECURSIVE IndexOfKey(_, _, _)
IndexOfKey(dependencies, key, i) ==
  IF i > Len(dependencies) THEN 0
  ELSE IF dependencies[i].key = key THEN i
  ELSE IndexOfKey(dependencies, key, i + 1)

Has(dependencies, key) == IndexOfKey(dependencies, key, 1) # 0
Get(dependencies, key) == dependencies[IndexOfKey(dependencies, key, 1)]

\* the range of a sheet the scope selects (lines 96-102)
ScopeRange(g, scope, sheetName) ==
  IF scope.type = "range" /\ scope.rangeAddress # Undefined
    THEN getRange(scope.rangeAddress)
    ELSE getUsedRange(g, getItem(sheetName))

\* the entry the first pass stores for one formula cell (lines 119-128)
ScannedEntry(formula, sheetName, row, col) ==
  [key        |-> sheetName \o <<"!">> \o getAddress(row, col),
   precedents |-> extractPrecedents(formula, sheetName),
   dependents |-> <<>>,
   formula    |-> formula]

\* lines 113-128 for the cell at offset (row, col) of the range
ScanCell(formula, sheetName, baseCoords, row, col) ==
  IF formula = <<>> \/ formula[1] # "="
    THEN <<>>
    ELSE <<ScannedEntry(formula, sheetName, baseCoords.row + row, baseCoords.col + col)>>

ScanCellAt(g, sheetName, range, baseCoords, row, col) ==
  ScanCell(FormulaAt(g, getItem(sheetName), range.top + row, range.left + col),
           sheetName, baseCoords, row, col)

\* the two nested loops over one range, row-major, from the n-th cell on
RECURSIVE ScanRange(_, _, _, _, _)
ScanRange(g, sheetName, range, baseCoords, n) ==
  IF n >= rowCount(range) * columnCount(range) THEN <<>>
  ELSE ScanCellAt(g, sheetName, range, baseCoords,
                  n \div columnCount(range), n % columnCount(range))
       \o ScanRange(g, sheetName, range, baseCoords, n + 1)

\* lines 108-109: the coordinates of the first cell of Range.address
BaseCoords(address) == addressToCoords(Split(Split(address, "!")[2], ":")[1])

ScanSheet(g, sheetName, range) ==
  ScanRange(g, sheetName, range, BaseCoords(RangeAddress(sheetName, range)), 0)

\* the loop over the sheets of the scope (lines 94-131)
RECURSIVE ScanSheets(_, _, _, _)
ScanSheets(g, scope, sheets, k) ==
  IF k > Len(sheets) THEN <<>>
  ELSE ScanSheet(g, sheets[k], ScopeRange(g, scope, sheets[k]))
       \o ScanSheets(g, scope, sheets, k + 1)

\* LinkAt that creates the entry of an unscanned precedent without the
\* dependent edge
LinkAt_NoBackEdge(dependencies, address, precedent, k) ==
  IF k # 0
    THEN [dependencies EXCEPT ![k].dependents = Append(@, address)]
    ELSE Append(dependencies,
                [key |-> precedent, precedents |-> <<>>,
                 dependents |-> <<>>, formula |-> <<>>])

\* lines 136-146 with k the position of the precedent's entry, 0 for none
LinkAt(dependencies, address, precedent, k) ==
  IF k # 0
    THEN [dependencies EXCEPT ![k].dependents = Append(@, address)]
    ELSE Append(dependencies,
                [key |-> precedent, precedents |-> <<>>,
                 dependents |-> <<address>>, formula |-> <<>>])

\* one precedent of one entry in the reverse pass
LinkPrecedent(dependencies, address, precedent) ==
  LinkAt(dependencies, address, precedent, IndexOfKey(dependencies, precedent, 1))

\* the reverse pass from precedent j of entry i on; entries added on the way
\* are visited too, as Map iteration does
RECURSIVE BuildDependents(_, _, _)
BuildDependents(dependencies, i, j) ==
  IF i > Len(dependencies) THEN dependencies
  ELSE IF j > Len(dependencies[i].precedents)
    THEN BuildDependents(dependencies, i + 1, 1)
  ELSE BuildDependents(
         LinkPrecedent(dependencies, dependencies[i].key, dependencies[i].precedents[j]),
         i, j + 1)

\* lines 83-92
SheetsOf(scope) == IF scope.type = "workbook" THEN SheetNames ELSE <<scope.sheetName>>

buildDependencyGraph(g, scope) ==
  BuildDependents(ScanSheets(g, scope, SheetsOf(scope), 1), 1, 1)

(***************************************************************************)
(* analyzeInputsOutputs (calculationFlow.ts, lines 156-198).               *)
(***************************************************************************)
\* `dependencies.get(p)?.formula` is truthy
HasFormula(dependencies, key) ==
  Has(dependencies, key) /\ Get(dependencies, key).formula # <<>>

\* Skipped without the test of the formula text
Skipped_Never(info) == FALSE

\* the `continue` of line 167: the entry is not classified
Skipped(info) == info.formula = <<>>

\* inScopePrecedents that also counts precedents without formula text
inScopePrecedents_AnyCell(dependencies, scope, info) ==
  SelectSeq(info.precedents, LAMBDA p : isInScope(p, scope))

inScopePrecedents(dependencies, scope, info) ==
  SelectSeq(info.precedents,
            LAMBDA p : isInScope(p, scope) /\ HasFormula(dependencies, p))

inScopeDependents(dependencies, scope, info) ==
  SelectSeq(info.dependents,
            LAMBDA d : isInScope(d, scope) /\ HasFormula(dependencies, d))

\* the group the if-chain of lines 181-189 pushes the address to
GroupOfFlags(hasPrecedents, hasDependents) ==
  IF ~hasPrecedents /\ ~hasDependents THEN "orphans"
  ELSE IF ~hasPrecedents /\ hasDependents THEN "inputs"
  ELSE IF hasPrecedents /\ ~hasDependents THEN "outputs"
  ELSE "calculations"

GroupOf(dependencies, scope, info) ==
  GroupOfFlags(Len(inScopePrecedents(dependencies, scope, info)) > 0,
               Len(inScopeDependents(dependencies, scope, info)) > 0)

\* the addresses pushed to one group, in the order of the Map
RECURSIVE GroupCells(_, _, _, _)
GroupCells(dependencies, scope, group, i) ==
  IF i > Len(dependencies) THEN <<>>
  ELSE (IF ~Skipped(dependencies[i])
           /\ GroupOf(dependencies, scope, dependencies[i]) = group
          THEN <<dependencies[i].key>>
          ELSE <<>>)
       \o GroupCells(dependencies, scope, group, i + 1)

analyzeInputsOutputsThrows(dependencies, scope) ==
  \E i \in DOMAIN dependencies :
    /\ ~Skipped(dependencies[i])
    /\ \/ \E j \in DOMAIN dependencies[i].precedents :
            isInScopeThrows(dependencies[i].precedents[j], scope)
       \/ \E j \in DOMAIN dependencies[i].dependents :
            isInScopeThrows(dependencies[i].dependents[j], scope)

analyzeInputsOutputs(dependencies, scope) ==
  [inputs       |-> GroupCells(dependencies, scope, "inputs", 1),
   calculations |-> GroupCells(dependencies, scope, "calculations", 1),
   outputs      |-> GroupCells(dependencies, scope, "outputs", 1),
   orphans      |-> GroupCells(dependencies, scope, "orphans", 1)]

(***************************************************************************)
(* analyzeInflowsOutflows (calculationFlow.ts, lines 203-255).             *)
(***************************************************************************)
\* the filter of lines 224-226 without its isInScope test
outsidePrec_AnyScope(scope, info) ==
  SelectSeq(info.precedents, LAMBDA p : ~isInFocusArea(p, scope.focusArea))

outsidePrec(scope, info) ==
  SelectSeq(info.precedents,
            LAMBDA p : ~isInFocusArea(p, scope.focusArea) /\ isInScope(p, scope))

outsideDep(scope, info) ==
  SelectSeq(info.dependents,
            LAMBDA d : ~isInFocusArea(d, scope.focusArea) /\ isInScope(d, scope))

\* the filter callback of lines 224-226 and 234-236 throws on address a
OutsideTestThrows(a, scope) ==
  \/ isInFocusAreaThrows(a, scope.focusArea)
  \/ ~isInFocusArea(a, scope.focusArea) /\ isInScopeThrows(a, scope)

\* [...new Set(cells)]: the first occurrence of every element, in order
AddDistinct(front, last) ==
  IF last \in Range(front) THEN front ELSE Append(front, last)

RECURSIVE Distinct(_)
Distinct(cells) ==
  IF cells = <<>> THEN <<>>
  ELSE AddDistinct(Distinct(SubSeq(cells, 1, Len(cells) - 1)), cells[Len(cells)])

\* lines 228-241: the four arrays after one address in the focus area
FocusStep(flows, address, prec, dep) ==
  [inflows  |-> IF Len(prec) > 0 THEN Append(flows.inflows, address) ELSE flows.inflows,
   outsidePrecedents |-> flows.outsidePrecedents \o prec,
   outflows |-> IF Len(dep) > 0 THEN Append(flows.outflows, address) ELSE flows.outflows,
   outsideDependents |-> flows.outsideDependents \o dep]

\* the loop of lines 215-243 from entry i on, flows being the four arrays
RECURSIVE FocusLoop(_, _, _, _)
FocusLoop(dependencies, scope, i, flows) ==
  IF i > Len(dependencies) THEN flows
  ELSE IF Skipped(dependencies[i])
          \/ ~isInFocusArea(dependencies[i].key, scope.focusArea)
    THEN FocusLoop(dependencies, scope, i + 1, flows)
  ELSE FocusLoop(dependencies, scope, i + 1,
                 FocusStep(flows, dependencies[i].key,
                           outsidePrec(scope, dependencies[i]),
                           outsideDep(scope, dependencies[i])))

analyzeInflowsOutflowsThrows(dependencies, scope) ==
  \/ \E i \in DOMAIN dependencies :
       /\ ~Skipped(dependencies[i])
       /\ \/ isInFocusAreaThrows(dependencies[i].key, scope.focusArea)
          \/ /\ isInFocusArea(dependencies[i].key, scope.focusArea)
             /\ \/ \E j \in DOMAIN dependencies[i].precedents :
                     OutsideTestThrows(dependencies[i].precedents[j], scope)
                \/ \E j \in DOMAIN dependencies[i].dependents :
                     OutsideTestThrows(dependencies[i].dependents[j], scope)
  \/ analyzeInputsOutputsThrows(dependencies, scope)

\* a result whose inputs group is overwritten by the inflow cells
FlowResult_InflowsAsInputs(standardAnalysis, flows) ==
  [inputs            |-> flows.inflows,
   calculations      |-> standardAnalysis.calculations,
   outputs           |-> standardAnalysis.outputs,
   orphans           |-> standardAnalysis.orphans,
   inflows           |-> flows.inflows,
   outflows          |-> flows.outflows,
   outsidePrecedents |-> Distinct(flows.outsidePrecedents),
   outsideDependents |-> Distinct(flows.outsideDependents)]

\* lines 248-254: the standard analysis spread under the four flow groups
FlowResult(standardAnalysis, flows) ==
  [inputs            |-> standardAnalysis.inputs,
   calculations      |-> standardAnalysis.calculations,
   outputs           |-> standardAnalysis.outputs,
   orphans           |-> standardAnalysis.orphans,
   inflows           |-> flows.inflows,
   outflows          |-> flows.outflows,
   outsidePrecedents |-> Distinct(flows.outsidePrecedents),
   outsideDependents |-> Distinct(flows.outsideDependents)]

NoFlows == [inflows |-> <<>>, outflows |-> <<>>,
            outsidePrecedents |-> <<>>, outsideDependents |-> <<>>]

analyzeInflowsOutflows(dependencies, scope) ==
  FlowResult(analyzeInputsOutputs(dependencies, scope),
             FocusLoop(dependencies, scope, 1, NoFlows))

(***************************************************************************)
(* The state: the workbook, and the Calculation Flow tool around the       *)
(* analyzer (src/unnamed/part_001).                                        *)
(***************************************************************************)
VARIABLES
  grid,          \* Range.formulas of every cell of the workbook
  pc,            \* "idle", "analysed" (analyzeFlow returned), "failed" (it threw)
  scope,         \* the AnalysisScope of the last analyzeFlow call
  dependencies,  \* the Map buildDependencyGraph returned to analyzeFlow
  results,       \* the tool's state.results
  call,          \* the last call of a function of the utility classes
  navigationHistory,    \* KeyboardShortcutManager.navigationHistory
  currentHistoryIndex,  \* KeyboardShortcutManager.currentHistoryIndex
  fill,          \* Range.format.fill.color of every cell of the workbook
  originalColors \* FormulaMapper.originalColors

\* the fields of KeyboardShortcutManager and of the formula map
manager == <<navigationHistory, currentHistoryIndex>>
mapper == <<fill, originalColors>>

vars == <<grid, pc, scope, dependencies, results, call, manager, mapper>>

\* no function of the utility classes was called yet
NoCall == [op |-> "none"]

\* state.results before any analysis
Null == [null |-> TRUE]

NoFocus == [sheetName |-> Undefined, rangeAddress |-> Undefined]

WorkbookScope == [type |-> "workbook", sheetName |-> Undefined,
                  rangeAddress |-> Undefined, hasFocusArea |-> FALSE, focusArea |-> NoFocus]

WorksheetScope(sheetName) ==
  [type |-> "worksheet", sheetName |-> sheetName,
   rangeAddress |-> Undefined, hasFocusArea |-> FALSE, focusArea |-> NoFocus]

RangeScope(sheetName, rangeAddress) ==
  [type |-> "range", sheetName |-> sheetName,
   rangeAddress |-> rangeAddress, hasFocusArea |-> FALSE, focusArea |-> NoFocus]

WithFocus(sc, sheetName, rangeAddress) ==
  [sc EXCEPT !.hasFocusArea = TRUE,
             !.focusArea = [sheetName |-> sheetName, rangeAddress |-> rangeAddress]]

\* the texts a cell is given when the dependency graph is examined
Formulas ==
  { <<"=","A","1">>,
    <<"=","$","A","$","1">>,
    <<"=","A","$","1">>,
    <<"=","S","U","M","(","A","1",":","B","1",")">>,
    <<"=","T","!","A","1">>,
    <<"=","X","!","A","1">>,
    <<"=","[","B","]","S","!","A","1">>,
    <<"=","I","N","D","I","R","E","C","T","(","\"","B","1","\"",")">>,
    <<"1","0">> }

\* the texts a cell is given when the classification is examined
FlowFormulas ==
  { <<"=","A","1">>,
    <<"=","B","1">>,
    <<"=","A","$","1">>,
    <<"=","T","!","A","1">>,
    <<"1","0">> }

\* the whole block of sheet S (`A1:B2` for two rows) and its column A
WholeBlock == <<"A","1",":">> \o getAddress(MaxRow, MaxCol)
ColumnA == <<"A","1",":">> \o getAddress(MaxRow, 1)

\* the scopes analyzeFlow is called with when the graph is examined
Scopes ==
  { WorkbookScope, WorksheetScope(<<"S">>), RangeScope(<<"S">>, WholeBlock) }

\* the scopes and focus areas it is called with when the classification is
FlowScopes ==
  LET plain == { WorkbookScope, WorksheetScope(<<"S">>),
                 RangeScope(<<"S">>, WholeBlock), RangeScope(<<"S">>, <<"A","1">>) }
      focus == { [sheetName |-> <<"S">>, rangeAddress |-> Undefined],
                 [sheetName |-> <<"S">>, rangeAddress |-> ColumnA],
                 [sheetName |-> <<"S">>, rangeAddress |-> <<"A","1">>] }
  IN  plain \cup {WithFocus(sc, fa.sheetName, fa.rangeAddress) :
                    sc \in {WorkbookScope, WorksheetScope(<<"S">>),
                            RangeScope(<<"S">>, WholeBlock)},
                    fa \in focus}

Init ==
  /\ grid = [cell \in Cells |-> <<>>]
  /\ pc = "idle"
  /\ scope = WorksheetScope(<<"S">>)
  /\ dependencies = <<>>
  /\ results = Null
  /\ call = NoCall
  /\ navigationHistory = <<>>
  /\ currentHistoryIndex = -1
  /\ fill = [cell \in Cells |-> ""]
  /\ originalColors = <<>>

\* the user gives an empty cell a formula or a constant
EnterFormula(cell, formula) ==
  /\ pc = "idle"
  /\ grid[cell] = <<>>
  /\ Cardinality({c \in Cells : grid[c] # <<>>}) < MaxFormulas
  /\ grid' = [grid EXCEPT ![cell] = formula]
  /\ UNCHANGED <<pc, scope, dependencies, results, call, manager, mapper>>

\* lines 65-71 of analyzeFlow throw
analyzeThrows(cellDependencies, sc) ==
  IF sc.hasFocusArea
    THEN analyzeInflowsOutflowsThrows(cellDependencies, sc)
    ELSE analyzeInputsOutputsThrows(cellDependencies, sc)

\* lines 65-71 of analyzeFlow
analyze(cellDependencies, sc) ==
  IF sc.hasFocusArea
    THEN analyzeInflowsOutflows(cellDependencies, sc)
    ELSE analyzeInputsOutputs(cellDependencies, sc)

\* the tool's handler once the graph is built: it keeps the result, or logs
\* the error and keeps what it had
KeepResults(sc, cellDependencies) ==
  /\ scope' = sc
  /\ dependencies' = cellDependencies
  /\ IF analyzeThrows(cellDependencies, sc)
       THEN pc' = "failed" /\ results' = results
       ELSE pc' = "analysed" /\ results' = analyze(cellDependencies, sc)

\* CalculationFlowAnalyzer.analyzeFlow (lines 58-72) called by the tool's
\* analyzeFlow handler
AnalyzeFlow(sc) ==
  /\ pc = "idle"
  /\ KeepResults(sc, buildDependencyGraph(grid, sc))
  /\ UNCHANGED <<grid, call, manager, mapper>>

Next ==
  \/ \E cell \in Cells, formula \in Formulas : EnterFormula(cell, formula)
  \/ \E sc \in Scopes : AnalyzeFlow(sc)

Spec == Init /\ [][Next]_vars

NextFlow ==
  \/ \E cell \in Cells, formula \in FlowFormulas : EnterFormula(cell, formula)
  \/ \E sc \in FlowScopes : AnalyzeFlow(sc)

SpecFlow == Init /\ [][NextFlow]_vars

(***************************************************************************)
(* Vocabulary of the properties.                                           *)
(***************************************************************************)
\* the graph key of a cell of the workbook
CellKey(cell) == SheetNames[cell[1]] \o <<"!">> \o getAddress(cell[2], cell[3])

\* the cells inside the scope of the last call: the sheets it names and,
\* for a range scope, the rectangle it names
CellsWithin(sheetNames, range) ==
  {cell \in Cells :
     /\ SheetNames[cell[1]] \in sheetNames
     /\ cell[2] >= range.top /\ cell[2] <= range.bottom
     /\ cell[3] >= range.left /\ cell[3] <= range.right}

ScopeCells ==
  IF scope.type = "range"
    THEN CellsWithin({scope.sheetName}, getRange(scope.rangeAddress))
    ELSE {cell \in Cells : SheetNames[cell[1]] \in Range(SheetsOf(scope))}

InScopeKeys == {CellKey(cell) : cell \in ScopeCells}

\* the formula cells the call scanned
ScannedKeys ==
  {CellKey(cell) : cell \in {c \in ScopeCells : grid[c] # <<>> /\ grid[c][1] = "="}}

Keys == {dependencies[i].key : i \in DOMAIN dependencies}

\* the graph addresses that carry formula text
FormulaKeys ==
  {dependencies[i].key : i \in {k \in DOMAIN dependencies : dependencies[k].formula # <<>>}}

PrecedentsOf(key) == Range(Get(dependencies, key).precedents)
DependentsOf(key) == Range(Get(dependencies, key).dependents)

\* the cells of one group of the result
Group(name) == Range(results[name])

AllGroups == results.inputs \o results.calculations \o results.outputs \o results.orphans

(***************************************************************************)
(* C1.  After buildDependencyGraph the graph is symmetric: whenever y is   *)
(* a precedent of x, y has an entry and x is among its dependents; a y     *)
(* that was not scanned as a formula cell has no formula text and no       *)
(* precedents.                                                             *)
(***************************************************************************)
C1_GraphSymmetric ==
  pc # "idle" =>
    \A x \in Keys : \A y \in PrecedentsOf(x) :
      /\ y \in Keys
      /\ x \in DependentsOf(y)
      /\ y \notin ScannedKeys =>
           /\ Get(dependencies, y).formula = <<>>
           /\ Get(dependencies, y).precedents = <<>>

\* a graph with an edge to a scanned formula cell and an edge to a leaf
C1_Witness ==
  /\ pc # "idle"
  /\ \E x \in Keys : \E y \in PrecedentsOf(x) : y \in ScannedKeys
  /\ \E x \in Keys : \E y \in PrecedentsOf(x) : y \notin ScannedKeys

(***************************************************************************)
(* C2.  analyzeInputsOutputs puts every formula-bearing address in exactly *)
(* one of inputs, calculations, outputs, orphans: no address occurs twice  *)
(* in the four groups together, and together they hold exactly the graph   *)
(* addresses with formula text.                                            *)
(***************************************************************************)
C2_Partition ==
  pc = "analysed" =>
    /\ Cardinality(Range(AllGroups)) = Len(AllGroups)
    /\ Range(AllGroups) = FormulaKeys

\* a result with two non-empty groups over a graph that also has a leaf
C2_Witness ==
  /\ pc = "analysed"
  /\ results.inputs # <<>>
  /\ results.outputs # <<>>
  /\ Keys # FormulaKeys

(***************************************************************************)
(* C3.  Each formula-bearing address is classified by P, its in-scope      *)
(* precedents that carry formula text, and D, its in-scope dependents that *)
(* carry formula text: orphan iff both are empty, input iff only P is,     *)
(* output iff only D is, calculation iff neither is; an address without    *)
(* formula text is in no group.                                            *)
(***************************************************************************)
\* the group of an address with in-scope formula precedents P and in-scope
\* formula dependents D
GroupBy(P, D) ==
  IF P = {} /\ D = {} THEN "orphans"
  ELSE IF P = {} THEN "inputs"
  ELSE IF D = {} THEN "outputs"
  ELSE "calculations"

\* every address is in the groups its P and D give it and in no other,
\* inScopeFormulas being the in-scope addresses that carry formula text
ClassifiedOver(inScopeFormulas) ==
  \A x \in Keys : \A name \in {"orphans", "inputs", "outputs", "calculations"} :
    x \in Group(name) <=>
      /\ x \in FormulaKeys
      /\ name = GroupBy(PrecedentsOf(x) \cap inScopeFormulas,
                        DependentsOf(x) \cap inScopeFormulas)

C3_Classification ==
  pc = "analysed" => ClassifiedOver(InScopeKeys \cap FormulaKeys)

\* the scenario of the specification on this sheet: A1 holds no formula,
\* B1 = A1 is an input, A2 = B1 is an output, A1 is in no group
C3_Witness ==
  /\ pc = "analysed"
  /\ grid[<<1, 1, 2>>] = <<"=","A","1">>
  /\ grid[<<1, 2, 1>>] = <<"=","B","1">>
  /\ results.inputs = << <<"S","!","B","1">> >>
  /\ results.outputs = << <<"S","!","A","2">> >>
  /\ <<"S","!","A","1">> \in Keys \ Range(AllGroups)

(***************************************************************************)
(* C4.  With a focus area set, a formula-bearing address inside the focus  *)
(* area is in inflows iff one of its precedents is in scope and outside    *)
(* the focus area, and outsidePrecedents holds exactly those precedents,   *)
(* once each; the same for outflows, dependents and outsideDependents.     *)
(* Inflows and outflows lie inside the focus area, outsidePrecedents and   *)
(* outsideDependents outside it.  Inside the focus area and in scope are   *)
(* what isInFocusArea and isInScope answer, which for the address of every *)
(* cell of the workbook is whether the cell lies in the focus rectangle    *)
(* and in the scope.                                                       *)
(***************************************************************************)
\* the cells of the workbook inside the focus area of the last call
FocusCells ==
  IF scope.focusArea.rangeAddress # Undefined
    THEN CellsWithin({scope.focusArea.sheetName}, getRange(scope.focusArea.rangeAddress))
    ELSE {cell \in Cells : SheetNames[cell[1]] = scope.focusArea.sheetName}

InFocus(a) == isInFocusArea(a, scope.focusArea)
OutsideInScope(a) == ~InFocus(a) /\ isInScope(a, scope)
FocusFormulaKeys == {x \in FormulaKeys : InFocus(x)}
OutsidePrecedentsOf(x) == {p \in PrecedentsOf(x) : OutsideInScope(p)}
OutsideDependentsOf(x) == {d \in DependentsOf(x) : OutsideInScope(d)}

\* the flow groups are those of the formula addresses inside the focus area
FlowsOver(focusFormulaKeys) ==
  /\ \A x \in focusFormulaKeys :
       /\ x \in Group("inflows") <=> OutsidePrecedentsOf(x) # {}
       /\ x \in Group("outflows") <=> OutsideDependentsOf(x) # {}
  /\ Group("outsidePrecedents") = UNION {OutsidePrecedentsOf(x) : x \in focusFormulaKeys}
  /\ Group("outsideDependents") = UNION {OutsideDependentsOf(x) : x \in focusFormulaKeys}
  /\ Group("inflows") \cup Group("outflows") \subseteq focusFormulaKeys

\* isInFocusArea and isInScope answer for the address of a cell whether the
\* cell is one of focusCells and one of scopeCells
TestsAgreeWith(focusCells, scopeCells) ==
  \A cell \in Cells :
    /\ InFocus(CellKey(cell)) <=> cell \in focusCells
    /\ isInScope(CellKey(cell), scope) <=> cell \in scopeCells

PlainScope == [scope EXCEPT !.hasFocusArea = FALSE, !.focusArea = NoFocus]

StandardGroups(r) ==
  [inputs |-> r.inputs, calculations |-> r.calculations,
   outputs |-> r.outputs, orphans |-> r.orphans]

C5_StandardGroupsKept ==
  pc = "analysed" /\ scope.hasFocusArea =>
    /\ ~analyzeThrows(buildDependencyGraph(grid, PlainScope), PlainScope)
    /\ buildDependencyGraph(grid, PlainScope) = dependencies
    /\ StandardGroups(results)
         = analyze(buildDependencyGraph(grid, PlainScope), PlainScope)

\* a focus area whose inflow cells are not the input cells
C5_Witness ==
  /\ pc = "analysed"
  /\ scope.hasFocusArea
  /\ results.inflows # <<>>
  /\ results.inputs # <<>>
  /\ results.inflows # results.inputs

(***************************************************************************)
(* C6.  Graph keys are normalized without `$`: no key of the graph and no  *)
(* element of a precedents or dependents collection contains `$`, and a    *)
(* formula cell A1 that another cell of its sheet references as `$A$1` or  *)
(* `A$1` has the referencing cell among its dependents.                    *)
(***************************************************************************)
\* the scanned formula cells whose formula text is one of the given texts
ScannedWith(formulas) ==
  {cell \in ScopeCells : grid[cell] \in formulas /\ grid[cell][1] = "="}

DollarReferences == { <<"=","$","A","$","1">>, <<"=","A","$","1">> }

\* the cell A1 of the sheet of a cell
A1Of(cell) == <<cell[1], 1, 1>>

C6_KeysWithoutDollar ==
  pc # "idle" =>
    /\ \A x \in Keys :
         /\ "$" \notin Range(x)
         /\ \A y \in PrecedentsOf(x) \cup DependentsOf(x) : "$" \notin Range(y)
    /\ \A cell \in ScannedWith(DollarReferences) :
         A1Of(cell) \in ScannedWith(Formulas) =>
           CellKey(cell) \in DependentsOf(CellKey(A1Of(cell)))

(***************************************************************************)
(* C7.  A range reference is one atomic precedent: a cell whose formula is *)
(* SUM over A1:B1 has the single precedent `sheet!A1:B1`, an entry without *)
(* formula text that has the cell among its dependents, and the cell is a  *)
(* dependent of no other entry, the entries of the cells inside the range  *)
(* included.                                                               *)
(***************************************************************************)
RangeReferences == { <<"=","S","U","M","(","A","1",":","B","1",")">> }

\* the key of the range A1:B1 on the sheet of a cell
RangeKeyOf(cell) == SheetNames[cell[1]] \o <<"!","A","1",":","B","1">>

DynamicReferences == { <<"=","I","N","D","I","R","E","C","T","(","\"","B","1","\"",")">> }

C8_NoDynamicEdge ==
  pc # "idle" =>
    \A cell \in ScannedWith(DynamicReferences) :
      /\ Get(dependencies, CellKey(cell)).precedents = <<>>
      /\ \A y \in Keys : CellKey(cell) \notin DependentsOf(y)

(***************************************************************************)
(* C9.  A reference to a sheet or a workbook that is not among the scanned *)
(* grids is recorded as a leaf: every precedent of a cell whose formula is *)
(* X!A1 or [B]S!A1 is an entry without formula text and without            *)
(* precedents that has the cell among its dependents.                      *)
(***************************************************************************)
ForeignReferences == { <<"=","X","!","A","1">>, <<"=","[","B","]","S","!","A","1">> }

C9_ForeignIsLeaf ==
  pc # "idle" =>
    \A cell \in ScannedWith(ForeignReferences) :
      /\ PrecedentsOf(CellKey(cell)) # {}
      /\ \A y \in PrecedentsOf(CellKey(cell)) :
           /\ y \in Keys
           /\ Get(dependencies, y).formula = <<>>
           /\ Get(dependencies, y).precedents = <<>>
           /\ CellKey(cell) \in DependentsOf(y)

(***************************************************************************)
(* C10.  An address that cannot be parsed into coordinates never aborts    *)
(* the classification: analyzeFlow returns, and every formula cell whose   *)
(* own address and references can be parsed is in one of the four groups.  *)
(***************************************************************************)
\* the formula cells without a `$` in their key or in a precedent
ParsableFormulaKeys ==
  {x \in FormulaKeys :
     /\ "$" \notin Range(x)
     /\ \A y \in PrecedentsOf(x) : "$" \notin Range(y)}

C10_BadAddressSkipped ==
  pc # "idle" =>
    /\ pc = "analysed"
    /\ ParsableFormulaKeys \subseteq Range(AllGroups)

(***************************************************************************)
(* ComparisonHelper (src/src/utils/comparisonHelper.ts).  A cell value is  *)
(* a record: a string with its text, a boolean with its text, undefined,   *)
(* or a number int + eps * 5e-11 (nan for NaN).  Row and column indices    *)
(* are 0-based as in the code; a grid is a sequence of rows.               *)
(***************************************************************************)
UndefinedValue == [type |-> "undefined", text |-> <<>>, int |-> 0, eps |-> 0, nan |-> FALSE]
StringValue(text) == [type |-> "string", text |-> text, int |-> 0, eps |-> 0, nan |-> FALSE]
NumberValue(int, eps) == [type |-> "number", text |-> <<>>, int |-> int, eps |-> eps, nan |-> FALSE]
NaNValue == [type |-> "number", text |-> <<>>, int |-> 0, eps |-> 0, nan |-> TRUE]
BooleanValue(text) == [type |-> "boolean", text |-> text, int |-> 0, eps |-> 0, nan |-> FALSE]

\* value1 === value2
StrictEquals(value1, value2) == value1 = value2 /\ ~value1.nan

\* the fraction digits of eps * 5e-11, eps in 1..19
FractionText(eps) ==
  <<".","0","0","0","0","0","0","0","0","0">>
  \o (IF 5 * eps < 10 THEN <<"0">> ELSE <<>>) \o NumberToText(5 * eps)

\* String(value)
String(value) ==
  IF value.type = "undefined" THEN <<"u","n","d","e","f","i","n","e","d">>
  ELSE IF value.type # "number" THEN value.text
  ELSE IF value.nan THEN <<"N","a","N">>
  ELSE NumberToText(value.int) \o (IF value.eps = 0 THEN <<>> ELSE FractionText(value.eps))

Abs(n) == IF n < 0 THEN -n ELSE n

\* a comparison in which NaN exceeds every tolerance
ExceedsTolerance_NaNExceeds(value1, value2) ==
  \/ value1.nan \/ value2.nan
  \/ value1.int # value2.int
  \/ 5 * Abs(value1.eps - value2.eps) > 10

\* Math.abs(value1 - value2) > 1e-10 for two numbers: a comparison with
\* NaN is false, and 5e-11 * |eps1 - eps2| is compared with 1e-10
ExceedsTolerance(value1, value2) ==
  /\ ~value1.nan /\ ~value2.nan
  /\ \/ value1.int # value2.int
     \/ 5 * Abs(value1.eps - value2.eps) > 10

\* value == null
IsNullish(value) == value.type = "undefined"

\* lines 183-199
areValuesDifferent(value1, value2) ==
  IF StrictEquals(value1, value2) THEN FALSE
  ELSE IF value1.type = "number" /\ value2.type = "number"
    THEN ExceedsTolerance(value1, value2)
  ELSE IF IsNullish(value1) # IsNullish(value2) THEN TRUE
  ELSE String(value1) # String(value2)

\* formula.replace(pattern, 'REF') from position i on, the pattern being
\* the one of extractPrecedents
RECURSIVE ReplaceFrom(_, _)

ReplaceStep(formula, i, match) ==
  IF match.ok
    THEN <<"R","E","F">> \o ReplaceFrom(formula, match.end)
    ELSE <<formula[i]>> \o ReplaceFrom(formula, i + 1)

ReplaceFrom(formula, i) ==
  IF i > Len(formula) THEN <<>>
  ELSE ReplaceStep(formula, i, MatchAt(formula, i))

\* lines 170-178
normalizeFormula(formula) ==
  IF formula = <<>> \/ formula[1] # "=" THEN formula
  ELSE ReplaceFrom(formula, 1)

\* lines 151-165
areFormulasDifferent(formula1, formula2, ignoreInputs) ==
  IF ~ignoreInputs THEN formula1 # formula2
  ELSE normalizeFormula(formula1) # normalizeFormula(formula2)

\* lines 204-211
isAdjacent(block, row, col) ==
  /\ row >= block.startRow - 1
  /\ row <= block.endRow + 1
  /\ col >= block.startCol - 1
  /\ col <= block.endCol + 1

\* grid[row]?.[col] is defined
HasCell(g, row, col) ==
  /\ row + 1 \in DOMAIN g
  /\ col + 1 \in DOMAIN g[row + 1]

\* formulas[row]?.[col] || ''
FormulaOrEmpty(formulas, row, col) ==
  IF HasCell(formulas, row, col) THEN formulas[row + 1][col + 1] ELSE <<>>

\* values[row]?.[col]
ValueOrUndefined(values, row, col) ==
  IF HasCell(values, row, col) THEN values[row + 1][col + 1] ELSE UndefinedValue

\* formulas[0]?.length || 0
FirstRowLength(formulas) == IF formulas = <<>> THEN 0 ELSE Len(formulas[1])

\* ComparisonHelper.getAddress (lines 216-219), 0-based
getAddress0(row, col) == numberToColumn(col + 1) \o NumberToText(row + 1)

CellDifference(row, col, formula, value) ==
  [address |-> getAddress0(row, col), formula |-> formula, value |-> value,
   isDifferent |-> TRUE]

\* lines 105-112
NewBlock(row, col) ==
  [startRow |-> row, startCol |-> col, endRow |-> row, endCol |-> col,
   referenceCells |-> <<>>, comparatorCells |-> <<>>]

\* lines 115-130
ExtendBlock(block, row, col, referenceCell, comparatorCell) ==
  [block EXCEPT !.endRow = IF row > @ THEN row ELSE @,
                !.endCol = IF col > @ THEN col ELSE @,
                !.referenceCells = Append(@, referenceCell),
                !.comparatorCells = Append(@, comparatorCell)]

\* the loop state: currentBlock is <<>> for null, <<block>> otherwise
NoDifferences == [differences |-> <<>>, totalDifferences |-> 0, currentBlock |-> <<>>]

\* lines 97-131 for a differing cell
DifferentCell(found, row, col, referenceCell, comparatorCell) ==
  IF found.currentBlock = <<>> \/ ~isAdjacent(found.currentBlock[1], row, col)
    THEN [differences |-> found.differences \o found.currentBlock,
          totalDifferences |-> found.totalDifferences + 1,
          currentBlock |-> <<ExtendBlock(NewBlock(row, col), row, col,
                                         referenceCell, comparatorCell)>>]
    ELSE [found EXCEPT !.totalDifferences = @ + 1,
                       !.currentBlock = <<ExtendBlock(@[1], row, col,
                                                      referenceCell, comparatorCell)>>]

\* lines 93-95
isDifferent(refFormula, refValue, compFormula, compValue, options) ==
  IF options.compareFormulas
    THEN areFormulasDifferent(refFormula, compFormula, options.ignoreInputs)
    ELSE areValuesDifferent(refValue, compValue)

\* lines 88-131 for one cell
CompareCell(found, row, col, refFormula, refValue, compFormula, compValue, options) ==
  IF isDifferent(refFormula, refValue, compFormula, compValue, options)
    THEN DifferentCell(found, row, col,
                       CellDifference(row, col, refFormula, refValue),
                       CellDifference(row, col, compFormula, compValue))
    ELSE found

\* the two nested loops of lines 86-133, row-major, from the n-th cell on
RECURSIVE CompareFrom(_, _, _, _, _, _, _, _, _)
CompareFrom(refFormulas, refValues, compFormulas, compValues, options, maxRows, maxCols, n, found) ==
  IF n >= maxRows * maxCols THEN found
  ELSE CompareFrom(refFormulas, refValues, compFormulas, compValues, options,
                   maxRows, maxCols, n + 1,
                   CompareCell(found, n \div maxCols, n % maxCols,
                               FormulaOrEmpty(refFormulas, n \div maxCols, n % maxCols),
                               ValueOrUndefined(refValues, n \div maxCols, n % maxCols),
                               FormulaOrEmpty(compFormulas, n \div maxCols, n % maxCols),
                               ValueOrUndefined(compValues, n \div maxCols, n % maxCols),
                               options))

\* lines 135-145
ComparisonResult(found) ==
  [differences |-> found.differences \o found.currentBlock,
   totalDifferences |-> found.totalDifferences,
   alignmentNeeded |-> FALSE,
   insertedRows |-> <<>>,
   insertedColumns |-> <<>>]

\* Math.max of two numbers
MathMax(a, b) == IF a >= b THEN a ELSE b

\* lines 68-146
compareRanges(refFormulas, refValues, compFormulas, compValues, options) ==
  ComparisonResult(
    CompareFrom(refFormulas, refValues, compFormulas, compValues, options,
                MathMax(Len(refFormulas), Len(compFormulas)),
                MathMax(FirstRowLength(refFormulas), FirstRowLength(compFormulas)),
                0, NoDifferences))

(***************************************************************************)
(* The grids compareRanges is given: the formulas and the values of the    *)
(* used range of a sheet.  A cell is its formula text (the text of the     *)
(* value for a constant, empty for an empty cell) and its value.           *)
(***************************************************************************)
Cell(formula, value) == [formula |-> formula, value |-> value]
Constant(value) == Cell(String(value), value)

EmptyCell == Constant(StringValue(<<>>))
FilledCell == Cell(<<"=","B","1","+","B","2">>, NumberValue(2, 0))

\* the contents of a sheet whose used range is the single cell A1
SingleCells ==
  { EmptyCell,
    FilledCell,
    Cell(<<"=","B","1","+","B","3">>, NumberValue(2, 0)),
    Cell(<<"=","B","1","*","B","2">>, NumberValue(1, 0)),
    Cell(<<"=","S","U","M","(","A",":","A",")">>, NumberValue(1, 1)),
    Cell(<<"=","S","U","M","(","B",":","B",")">>, NumberValue(1, 3)),
    Cell(<<"=","A","1","/","B","1">>, NaNValue),
    Constant(NumberValue(1, 0)),
    Constant(StringValue(<<"1">>)),
    Constant(BooleanValue(<<"t","r","u","e">>)),
    Constant(StringValue(<<"t","r","u","e">>)) }

\* the extents <<rows, columns>> of the larger used ranges
Shapes == { <<1, 2>>, <<2, 2>>, <<2, 3>> }

\* the most non-empty cells of a larger used range
MaxFilled == 3

GridsOfShape(rows, cols) ==
  {g \in [1..rows -> [1..cols -> {EmptyCell, FilledCell}]] :
     Cardinality({rc \in (1..rows) \X (1..cols) : g[rc[1]][rc[2]] = FilledCell})
       <= MaxFilled}

\* the used ranges: no cell at all, one cell, or a block of empty and
\* non-empty cells
CellGrids ==
  {<<>>} \cup {<< <<cell>> >> : cell \in SingleCells}
  \cup UNION {GridsOfShape(shape[1], shape[2]) : shape \in Shapes}

\* Range.formulas and Range.values of a used range
FormulasOf(g) == [row \in DOMAIN g |-> [col \in DOMAIN g[row] |-> g[row][col].formula]]
ValuesOf(g) == [row \in DOMAIN g |-> [col \in DOMAIN g[row] |-> g[row][col].value]]

ComparisonOptions ==
  [compareFormulas : BOOLEAN, ignoreInputs : BOOLEAN, detectAlignment : BOOLEAN]

\* ComparisonHelper.compareRanges is called (lines 56-62) with the formulas
\* and values of two used ranges
CompareRanges(ref, comp, options) ==
  /\ call = NoCall
  /\ call' = [op |-> "compareRanges",
              refFormulas |-> FormulasOf(ref), refValues |-> ValuesOf(ref),
              compFormulas |-> FormulasOf(comp), compValues |-> ValuesOf(comp),
              options |-> options,
              result |-> compareRanges(FormulasOf(ref), ValuesOf(ref),
                                       FormulasOf(comp), ValuesOf(comp), options)]
  /\ UNCHANGED <<grid, pc, scope, dependencies, results, manager, mapper>>

NextCompare ==
  /\ call = NoCall
  /\ \E ref \in CellGrids, comp \in CellGrids, options \in ComparisonOptions :
       CompareRanges(ref, comp, options)

SpecCompare == Init /\ [][NextCompare]_vars

(***************************************************************************)
(* Vocabulary of the comparison properties.                                *)
(***************************************************************************)
Compared == call.op = "compareRanges"

\* the positions <<row, col>> of the union bounding box of the last call
UnionBox ==
  (0 .. MathMax(Len(call.refFormulas), Len(call.compFormulas)) - 1)
  \X (0 .. MathMax(FirstRowLength(call.refFormulas),
                   FirstRowLength(call.compFormulas)) - 1)

\* the positions listed in a difference block
PositionsOf(block) ==
  {pos \in UnionBox :
     \E i \in DOMAIN block.referenceCells :
       block.referenceCells[i].address = getAddress0(pos[1], pos[2])}

\* the positions reported different, in any block
Reported == UNION {PositionsOf(call.result.differences[i]) : i \in DOMAIN call.result.differences}

(***************************************************************************)
(* C11.  Comparison idempotence: compareRanges of a grid (formulas and     *)
(* values) against itself returns totalDifferences 0 and no difference     *)
(* block, for every combination of options, in formula mode and in value   *)
(* mode.                                                                   *)
(***************************************************************************)
SelfCompared ==
  /\ Compared
  /\ call.refFormulas = call.compFormulas
  /\ call.refValues = call.compValues

C11_Idempotent ==
  SelfCompared =>
    /\ call.result.totalDifferences = 0
    /\ call.result.differences = <<>>

\* a grid whose value is not strictly equal to itself, compared with itself
\* in value mode
C11_Witness ==
  /\ SelfCompared
  /\ ~call.options.compareFormulas
  /\ call.refValues = << <<NaNValue>> >>

(***************************************************************************)
(* C13.  For grids of different extent, every position of the union        *)
(* bounding box is examined and a cell missing from one grid counts as an  *)
(* empty formula (formula mode) or an empty value (value mode): a position *)
(* that only one grid has is reported different iff the cell there is not  *)
(* empty.                                                                  *)
(***************************************************************************)
\* the positions only one of the two grids has
OneSided ==
  {pos \in UnionBox :
     HasCell(call.refFormulas, pos[1], pos[2]) # HasCell(call.compFormulas, pos[1], pos[2])}

\* the formula and the value at a position of the grid that has it
PresentFormula(pos) ==
  IF HasCell(call.refFormulas, pos[1], pos[2])
    THEN call.refFormulas[pos[1] + 1][pos[2] + 1]
    ELSE call.compFormulas[pos[1] + 1][pos[2] + 1]

PresentValue(pos) ==
  IF HasCell(call.refValues, pos[1], pos[2])
    THEN call.refValues[pos[1] + 1][pos[2] + 1]
    ELSE call.compValues[pos[1] + 1][pos[2] + 1]

IsEmptyAt(pos) ==
  IF call.options.compareFormulas
    THEN PresentFormula(pos) = <<>>
    ELSE PresentValue(pos) = StringValue(<<>>)

C13_MissingIsEmpty ==
  Compared =>
    \A pos \in OneSided : pos \in Reported <=> ~IsEmptyAt(pos)

(***************************************************************************)
(* C14.  Contiguous differing cells are in the same difference block: any  *)
(* two cells reported different whose rows and columns each differ by at   *)
(* most 1 belong to the same block of the result.                          *)
(***************************************************************************)
Adjacent8(p, q) == Abs(p[1] - q[1]) <= 1 /\ Abs(p[2] - q[2]) <= 1

SameBlock(p, q) ==
  \E i \in DOMAIN call.result.differences :
    {p, q} \subseteq PositionsOf(call.result.differences[i])

C14_ContiguousInOneBlock ==
  Compared =>
    \A p \in Reported : \A q \in Reported : Adjacent8(p, q) => SameBlock(p, q)

(***************************************************************************)
(* ExcelHelper references (src/src/utils/formulaParser.ts).                *)
(*                                                                         *)
(* The pattern of extractCellReferences, line 702:                         *)
(*   /(\[.*?\])?(\w+!)?(\$?[A-Z]+\$?\d+(?::\$?[A-Z]+\$?\d+)?               *)
(*                     |\$?[A-Z]+:\$?[A-Z]+|\$?\d+:\$?\d+)/gi              *)
(***************************************************************************)
\* \$?[A-Z]+ from position i
ColumnEnd(f, i) == NonEmptyRun(SkipDollar(f, i), LetterRun(f, SkipDollar(f, i)))

\* \$?\d+ from position i
DigitsEnd(f, i) == NonEmptyRun(SkipDollar(f, i), DigitRun(f, SkipDollar(f, i)))

\* the `:` at position e, where the first half ended, and the second half
ColonThen(f, e, secondEnd) == IF e # 0 /\ At(f, e) = ":" THEN secondEnd ELSE 0

\* \$?[A-Z]+:\$?[A-Z]+
ColumnRangeEnd(f, i) == ColonThen(f, ColumnEnd(f, i), ColumnEnd(f, ColumnEnd(f, i) + 1))

\* \$?\d+:\$?\d+
RowRangeEnd(f, i) == ColonThen(f, DigitsEnd(f, i), DigitsEnd(f, DigitsEnd(f, i) + 1))

\* a group 3 without the full-column and full-row alternatives
ReferenceEnd_CellsOnly(f, i) == AddressEnd(f, i)

\* group 3: the first of the three alternatives that matches at position i
ReferenceEnd(f, i) ==
  OrElse(AddressEnd(f, i), OrElse(ColumnRangeEnd(f, i), RowRangeEnd(f, i)))

\* (\w+!) with the word run of position j ending at w, then group 3
QualifiedReference(f, j, w) ==
  IF w > j /\ At(f, w) = "!"
    THEN MatchOf(f, j, w, w + 1, ReferenceEnd(f, w + 1))
    ELSE NoMatch

\* groups 2 and 3 from position j
SheetReference(f, j) ==
  FirstMatch(QualifiedReference(f, j, WordRun(f, j)),
             MatchOf(f, j, j - 1, j, ReferenceEnd(f, j)))

\* group 1, lazy: the nearest `]` at or after k after which the rest matches
RECURSIVE BracketReference(_, _, _)

BracketReferenceAt(f, i, c) ==
  IF c > Len(f) THEN NoMatch
  ELSE FirstMatch(WithWorkbook(SheetReference(f, c + 1), SubSeq(f, i, c)),
                  BracketReference(f, i, c + 1))

BracketReference(f, i, k) == BracketReferenceAt(f, i, IndexFrom(f, "]", k))

\* the match of the whole pattern that starts at position i
ReferenceAt(f, i) ==
  FirstMatch(IF At(f, i) = "[" THEN BracketReference(f, i, i + 1) ELSE NoMatch,
             SheetReference(f, i))

\* lines 704-707: the while loop over pattern.exec, pushing match[0]
RECURSIVE ExtractFrom(_, _)

ExtractStep(formula, i, match) ==
  IF match.ok
    THEN <<SubSeq(formula, i, match.end - 1)>> \o ExtractFrom(formula, match.end)
    ELSE ExtractFrom(formula, i + 1)

ExtractFrom(formula, i) ==
  IF i > Len(formula) THEN <<>>
  ELSE ExtractStep(formula, i, ReferenceAt(formula, i))

\* lines 698-710
extractCellReferences(formula) == ExtractFrom(formula, 1)

\* line 721-723: sheetName.substring(sheetName.indexOf(']') + 1)
AfterBracket(sheetName) ==
  IF Includes(sheetName, "]")
    THEN SubSeq(sheetName, IndexFrom(sheetName, "]", 1) + 1, Len(sheetName))
    ELSE sheetName

\* the two halves of sheetName.replace(/^'|'$/g, '')
StripLeadingQuote(s) == IF s # <<>> /\ s[1] = "'" THEN Tail(s) ELSE s

StripTrailingQuote(s) ==
  IF s # <<>> /\ s[Len(s)] = "'" THEN SubSeq(s, 1, Len(s) - 1) ELSE s

\* line 725
StripQuotes(s) == StripTrailingQuote(StripLeadingQuote(s))

\* lines 715-737, on the parts of reference.split('!')
ParsedParts(parts, reference, defaultSheet) ==
  IF Len(parts) = 2
    THEN [sheetName |-> StripQuotes(AfterBracket(parts[1])), address |-> parts[2]]
    ELSE [sheetName |-> defaultSheet, address |-> reference]

parseReference(reference, defaultSheet) ==
  ParsedParts(Split(reference, "!"), reference, defaultSheet)

(***************************************************************************)
(* C12.  In formula mode with ignoreInputs true, two formulas are reported *)
(* different iff their texts still differ after every reference token of   *)
(* the reference grammar (cell, cell range, full-column range, full-row    *)
(* range, each with optional workbook tag, sheet qualifier and `$`) is     *)
(* replaced by the placeholder; with the option false, iff their texts     *)
(* differ.                                                                 *)
(***************************************************************************)
\* the text from position i on with every reference token of the grammar
\* replaced by the placeholder
RECURSIVE PlaceholderFrom(_, _)

PlaceholderStep(formula, i, match) ==
  IF match.ok
    THEN <<"R","E","F">> \o PlaceholderFrom(formula, match.end)
    ELSE <<formula[i]>> \o PlaceholderFrom(formula, i + 1)

PlaceholderFrom(formula, i) ==
  IF i > Len(formula) THEN <<>>
  ELSE PlaceholderStep(formula, i, ReferenceAt(formula, i))

ReferencesReplaced(formula) == PlaceholderFrom(formula, 1)

\* the difference the formulas of a position are to show
FormulasDiffer(formula1, formula2, ignoreInputs) ==
  IF ignoreInputs
    THEN ReferencesReplaced(formula1) # ReferencesReplaced(formula2)
    ELSE formula1 # formula2

C12_ReferenceOnlyIgnored ==
  (Compared /\ call.options.compareFormulas) =>
    \A pos \in UnionBox :
      pos \in Reported <=>
        FormulasDiffer(FormulaOrEmpty(call.refFormulas, pos[1], pos[2]),
                       FormulaOrEmpty(call.compFormulas, pos[1], pos[2]),
                       call.options.ignoreInputs)

(***************************************************************************)
(* The formulas getDirectPrecedents resolves: reference tokens joined by   *)
(* `+`.  A token is kept with its parts, its text is what the formula      *)
(* holds.                                                                  *)
(***************************************************************************)
Token(workbook, sheet, quoted, address) ==
  [workbook |-> workbook, sheet |-> sheet, quoted |-> quoted, address |-> address]

Book1 == <<"[","B","o","o","k","1","]">>
Sheet1 == <<"S","h","e","e","t","1">>
Sheet2 == <<"S","h","e","e","t","2">>
MySheet == <<"M","y"," ","S","h","e","e","t">>

ReferenceTokens ==
  { Token(<<>>, <<>>, FALSE, <<"A","1">>),
    Token(<<>>, <<>>, FALSE, <<"$","B","$","2">>),
    Token(<<>>, <<>>, FALSE, <<"A",":","A">>),
    Token(<<>>, <<>>, FALSE, <<"1",":","1">>),
    Token(<<>>, Sheet2, FALSE, <<"A","1">>),
    Token(<<>>, Sheet1, FALSE, <<"C","3",":","C","1","0">>),
    Token(<<>>, Sheet2, FALSE, <<"$","A",":","$","B">>),
    Token(Book1, Sheet1, FALSE, <<"A","1">>),
    Token(<<>>, MySheet, TRUE, <<"A","1">>),
    Token(<<>>, Sheet2, TRUE, <<"B","2">>),
    Token(Book1, MySheet, TRUE, <<"A","1">>) }

\* the sheet qualifier of a token as the formula text holds it
QualifierText(token) ==
  IF token.sheet = <<>> THEN <<>>
  ELSE IF token.quoted THEN <<"'">> \o token.sheet \o <<"'","!">>
  ELSE token.sheet \o <<"!">>

TokenText(token) == token.workbook \o QualifierText(token) \o token.address

\* the most tokens of a formula
MaxTokens == 3

TokenLists == UNION {[1 .. n -> ReferenceTokens] : n \in 1 .. MaxTokens}

\* the tokens from the i-th on, each after the first preceded by `+`
RECURSIVE JoinFrom(_, _)
JoinFrom(tokens, i) ==
  IF i > Len(tokens) THEN <<>>
  ELSE (IF i > 1 THEN <<"+">> ELSE <<>>) \o TokenText(tokens[i]) \o JoinFrom(tokens, i + 1)

FormulaOf(tokens) == <<"=">> \o JoinFrom(tokens, 1)

\* the names of the sheet that holds the formula
DefaultSheets == { Sheet1, <<"S">> }

\* lines 609-613: every extracted reference parsed against the sheet
ParseAll(references, defaultSheet) ==
  [i \in DOMAIN references |-> parseReference(references[i], defaultSheet)]

GetDirectPrecedents(tokens, formula, defaultSheet) ==
  /\ call = NoCall
  /\ call' = [op |-> "getDirectPrecedents",
              tokens |-> tokens, formula |-> formula, defaultSheet |-> defaultSheet,
              references |-> extractCellReferences(formula),
              resolved |-> ParseAll(extractCellReferences(formula), defaultSheet)]
  /\ UNCHANGED <<grid, pc, scope, dependencies, results, manager, mapper>>

NextResolve ==
  /\ call = NoCall
  /\ \E tokens \in TokenLists, defaultSheet \in DefaultSheets :
       GetDirectPrecedents(tokens, FormulaOf(tokens), defaultSheet)

SpecResolve == Init /\ [][NextResolve]_vars

Resolved == call.op = "getDirectPrecedents"

\* the token is of the grammar: its sheet qualifier, if any, is a bare name
Unquoted(token) == ~token.quoted

\* the sheet a token names, the sheet of the formula when it names none
SheetOf(token, defaultSheet) ==
  IF token.sheet # <<>> THEN token.sheet ELSE defaultSheet

(***************************************************************************)
(* C17.  extractCellReferences returns exactly the reference tokens of the *)
(* formula in left-to-right order, and parseReference resolves each token  *)
(* to its explicit sheet qualifier when it has one and to the default      *)
(* sheet otherwise.                                                        *)
(***************************************************************************)
GrammarFormula == Resolved /\ \A i \in DOMAIN call.tokens : Unquoted(call.tokens[i])

QuotedOrTagged(token) == token.quoted \/ token.workbook # <<>>

C18_QuotedSheetResolved ==
  Resolved =>
    \A i \in DOMAIN call.tokens :
      QuotedOrTagged(call.tokens[i]) =>
        /\ Len(call.resolved) = Len(call.tokens)
        /\ call.resolved[i].sheetName = call.tokens[i].sheet

(***************************************************************************)
(* Address conversion (formulaParser.ts, lines 761-808; the same text as   *)
(* calculationFlow.ts, lines 401-430): addressToCoords called on a token,  *)
(* and the address built back from the coordinates it returned.            *)
(***************************************************************************)
\* the characters the tokens are made of
AddressChars == { "$", "A", "B", "a", "1", "2", ":" }

\* the most characters of a token
MaxAddressLen == 4

AddressTokens == UNION {[1 .. n -> AddressChars] : n \in 1 .. MaxAddressLen}

\* line 807: the address of the coordinates
AddressOfCoords(coords) == getAddress(coords.row, coords.col)

\* what the caller of addressToCoords gets
CoordsOutcome(address) ==
  IF addressToCoordsThrows(address)
    THEN [threw |-> TRUE, coords |-> [row |-> 0, col |-> 0], address |-> <<>>]
    ELSE [threw |-> FALSE, coords |-> addressToCoords(address),
          address |-> AddressOfCoords(addressToCoords(address))]

AddressToCoords(address) ==
  /\ call = NoCall
  /\ call' = [op |-> "addressToCoords", address |-> address,
              outcome |-> CoordsOutcome(address)]
  /\ UNCHANGED <<grid, pc, scope, dependencies, results, manager, mapper>>

NextAddress ==
  /\ call = NoCall
  /\ \E address \in AddressTokens : AddressToCoords(address)

SpecAddress == Init /\ [][NextAddress]_vars

Converted == call.op = "addressToCoords"

\* [A-Z], without the i flag
IsUpper(ch) == ch \in Range(Upper)

RECURSIVE UpperRun(_, _)
UpperRun(s, i) == IF IsUpper(At(s, i)) THEN UpperRun(s, i + 1) ELSE i

\* the text without its `$` characters
RECURSIVE WithoutDollar(_)
WithoutDollar(s) ==
  IF s = <<>> THEN <<>>
  ELSE (IF Head(s) = "$" THEN <<>> ELSE <<Head(s)>>) \o WithoutDollar(Tail(s))

\* [A-Z]+[0-9]+ as a whole
WholeCell(s) ==
  /\ UpperRun(s, 1) > 1
  /\ DigitRun(s, UpperRun(s, 1)) > UpperRun(s, 1)
  /\ DigitRun(s, UpperRun(s, 1)) = Len(s) + 1

\* a single-cell address, each of its two parts with or without `$`
WellFormedCell(s) ==
  /\ WholeCell(WithoutDollar(s))
  /\ CellEnd(s, 1) = Len(s) + 1

(***************************************************************************)
(* C15.  Address round trip: for every well-formed single-cell address,    *)
(* with or without `$` markers, addressToCoords does not fail and the      *)
(* address built from its coordinates is the address with every `$`        *)
(* removed.                                                                *)
(***************************************************************************)
C15_RoundTrip ==
  (Converted /\ WellFormedCell(call.address)) =>
    /\ ~call.outcome.threw
    /\ call.outcome.address = WithoutDollar(call.address)

(***************************************************************************)
(* C16.  addressToCoords fails with an invalid-address error for every     *)
(* token that is not [A-Z]+[0-9]+ as a whole (a range, a token with extra  *)
(* characters before or after, lowercase letters); it returns coordinates  *)
(* only for tokens that match.  Tokens with `$` are those of C15 and are   *)
(* left out here.                                                          *)
(***************************************************************************)
C16_InvalidRejected ==
  (Converted /\ ~Includes(call.address, "$") /\ ~WholeCell(call.address)) =>
    call.outcome.threw

(***************************************************************************)
(* FormulaParser (src/src/utils/formulaParser.ts, lines 15-240).  A node   *)
(* is a record with the fields the source sets: type and value, address    *)
(* for a reference, children for a function and an operator.               *)
(***************************************************************************)
\* String.prototype.trim, for spaces
RECURSIVE TrimStart(_)
TrimStart(s) == IF s # <<>> /\ Head(s) = " " THEN TrimStart(Tail(s)) ELSE s

RECURSIVE TrimEnd(_)
TrimEnd(s) ==
  IF s # <<>> /\ s[Len(s)] = " " THEN TrimEnd(SubSeq(s, 1, Len(s) - 1)) ELSE s

Trim(s) == TrimEnd(TrimStart(s))

\* String.prototype.toUpperCase
UpperOf(ch) ==
  IF ch \in Range(Lower) THEN Upper[CHOOSE i \in DOMAIN Lower : Lower[i] = ch] ELSE ch

toUpperCase(s) == [i \in DOMAIN s |-> UpperOf(s[i])]

\* the end of the longest run of [A-Z0-9_.] from position i
RECURSIVE NameRun(_, _)
NameRun(s, i) ==
  IF IsWord(At(s, i)) \/ At(s, i) = "." THEN NameRun(s, i + 1) ELSE i

\* the end of the longest run of spaces from position i
RECURSIVE SpaceRun(_, _)
SpaceRun(s, i) == IF At(s, i) = " " THEN SpaceRun(s, i + 1) ELSE i

\* /^([A-Z_][A-Z0-9_.]*)\s*\(/i: the position of the `(` that ends the
\* match, 0 when the expression has no function head
FuncHeadParen(expr) ==
  IF (IsLetter(At(expr, 1)) \/ At(expr, 1) = "_")
       /\ At(expr, SpaceRun(expr, NameRun(expr, 2))) = "("
    THEN SpaceRun(expr, NameRun(expr, 2))
    ELSE 0

\* funcMatch[1]
FuncHeadName(expr) == SubSeq(expr, 1, NameRun(expr, 2) - 1)

IsQuote(ch) == ch = "\"" \/ ch = "'"

\* lines 105-125: the loop of findMatchingParen from position i, with the
\* quote that opened the string it is in ("" outside a string); the position
\* of the matching `)`, Len(str) + 1 when there is none
RECURSIVE MatchingParenFrom(_, _, _, _)
MatchingParenFrom(str, i, depth, stringChar) ==
  IF i > Len(str) THEN Len(str) + 1
  ELSE IF stringChar # ""
    THEN MatchingParenFrom(str, i + 1, depth,
           IF str[i] = stringChar /\ At(str, i - 1) # "\\" THEN "" ELSE stringChar)
  ELSE IF IsQuote(str[i]) THEN MatchingParenFrom(str, i + 1, depth, str[i])
  ELSE IF str[i] = "(" THEN MatchingParenFrom(str, i + 1, depth + 1, "")
  ELSE IF str[i] = ")"
    THEN (IF depth = 1 THEN i ELSE MatchingParenFrom(str, i + 1, depth - 1, ""))
  ELSE MatchingParenFrom(str, i + 1, depth, "")

\* lines 100-128, openIndex being the position of the `(`
findMatchingParen(str, openIndex) == MatchingParenFrom(str, openIndex + 1, 1, "")

\* lines 164-166
PushIfText(args, currentArg) ==
  IF Trim(currentArg) # <<>> THEN Append(args, Trim(currentArg)) ELSE args

\* lines 137-162: the loop of splitArguments from position i
RECURSIVE SplitArgumentsFrom(_, _, _, _, _, _)
SplitArgumentsFrom(argsString, i, args, currentArg, depth, stringChar) ==
  IF i > Len(argsString) THEN PushIfText(args, currentArg)
  ELSE IF stringChar # ""
    THEN SplitArgumentsFrom(argsString, i + 1, args, Append(currentArg, argsString[i]), depth,
           IF argsString[i] = stringChar /\ At(argsString, i - 1) # "\\"
             THEN "" ELSE stringChar)
  ELSE IF IsQuote(argsString[i])
    THEN SplitArgumentsFrom(argsString, i + 1, args, Append(currentArg, argsString[i]), depth,
                            argsString[i])
  ELSE IF argsString[i] \in {"(", "{"}
    THEN SplitArgumentsFrom(argsString, i + 1, args, Append(currentArg, argsString[i]),
                            depth + 1, "")
  ELSE IF argsString[i] \in {")", "}"}
    THEN SplitArgumentsFrom(argsString, i + 1, args, Append(currentArg, argsString[i]),
                            depth - 1, "")
  ELSE IF argsString[i] = "," /\ depth = 0
    THEN SplitArgumentsFrom(argsString, i + 1, Append(args, Trim(currentArg)), <<>>, depth, "")
  ELSE SplitArgumentsFrom(argsString, i + 1, args, Append(currentArg, argsString[i]), depth, "")

\* lines 130-170
splitArguments(argsString) == SplitArgumentsFrom(argsString, 1, <<>>, <<>>, 0, "")

\* line 180
precedenceOrder ==
  << <<"=">>, <<"<",">">>, <<"<","=">>, <<">","=">>, <<"<">>, <<">">>,
     <<"&">>, <<"+">>, <<"-">>, <<"*">>, <<"/">>, <<"^">> >>

\* lines 201-205: the operator op ends at position i
OperatorEndsAt(expr, op, i) ==
  IF Len(op) = 2 THEN i > 1 /\ SubSeq(expr, i - 1, i) = op
  ELSE expr[i] = op[1]

\* lines 186-207: the right-to-left scan for op from position i; the
\* position where op starts, 0 when the scan finds none
RECURSIVE ScanOperator(_, _, _, _, _)
ScanOperator(expr, op, i, depth, stringChar) ==
  IF i < 1 THEN 0
  ELSE IF stringChar # ""
    THEN ScanOperator(expr, op, i - 1, depth,
           IF expr[i] = stringChar /\ (i = 1 \/ expr[i - 1] # "\\") THEN "" ELSE stringChar)
  ELSE IF IsQuote(expr[i]) THEN ScanOperator(expr, op, i - 1, depth, expr[i])
  ELSE IF expr[i] = ")" THEN ScanOperator(expr, op, i - 1, depth + 1, "")
  ELSE IF expr[i] = "(" THEN ScanOperator(expr, op, i - 1, depth - 1, "")
  ELSE IF depth = 0 /\ OperatorEndsAt(expr, op, i) THEN i - (Len(op) - 1)
  ELSE ScanOperator(expr, op, i - 1, depth, "")

NoOperator == [found |-> FALSE, operator |-> <<>>, index |-> 0]

\* lines 182-209: the loop over precedenceOrder from its k-th operator
RECURSIVE FindOperatorFrom(_, _)

FindOperatorStep(expr, k, index) ==
  IF index # 0
    THEN [found |-> TRUE, operator |-> precedenceOrder[k], index |-> index]
    ELSE FindOperatorFrom(expr, k + 1)

FindOperatorFrom(expr, k) ==
  IF k > Len(precedenceOrder) THEN NoOperator
  ELSE FindOperatorStep(expr, k, ScanOperator(expr, precedenceOrder[k], Len(expr), 0, ""))

\* lines 172-212
findTopLevelOperator(expr) == FindOperatorFrom(expr, 1)

\* group 3 of the pattern of isCellReference, from position j to the end
WholeAddress(expr, j) ==
  Len(expr) + 1 \in {CellEnd(expr, j), ColumnRangeEnd(expr, j),
                     RowRangeEnd(expr, j), AddressEnd(expr, j)}

\* groups 2 and 3 from position j to the end
WholeSheetAddress(expr, j) ==
  \/ WholeAddress(expr, j)
  \/ /\ WordRun(expr, j) > j
     /\ At(expr, WordRun(expr, j)) = "!"
     /\ WholeAddress(expr, WordRun(expr, j) + 1)

\* lines 214-218: the anchored pattern matches the whole text
WholeReference(expr) ==
  \/ WholeSheetAddress(expr, 1)
  \/ /\ At(expr, 1) = "["
     /\ \E c \in 2 .. Len(expr) : expr[c] = "]" /\ WholeSheetAddress(expr, c + 1)

isCellReference(expr) == WholeReference(Trim(expr))

\* line 224, for texts of digits with an optional sign: Number(expr) is a
\* number; the empty text converts to 0
IsNumeric(expr) ==
  \/ expr = <<>>
  \/ DigitRun(expr, 1) = Len(expr) + 1
  \/ /\ expr[1] \in {"+", "-"}
     /\ Len(expr) > 1
     /\ DigitRun(expr, 2) = Len(expr) + 1

\* lines 229-231
IsQuoted(expr) ==
  /\ expr # <<>>
  /\ \/ expr[1] = "\"" /\ expr[Len(expr)] = "\""
     \/ expr[1] = "'" /\ expr[Len(expr)] = "'"

\* lines 235-237
IsBoolean(expr) ==
  toUpperCase(expr) \in { <<"T","R","U","E">>, <<"F","A","L","S","E">> }

\* lines 220-240, after the trim of line 221
LiteralText(expr) == IsNumeric(expr) \/ IsQuoted(expr) \/ IsBoolean(expr)

isLiteral(expr) == LiteralText(Trim(expr))

LiteralNode(value) == [type |-> "literal", value |-> value]

ReferenceNode(value) == [type |-> "reference", value |-> value, address |-> value]

RECURSIVE ParseTrimmed(_)

\* line 91: args.map(arg => this.parseExpression(arg)), the trim of line 32
\* included
ParseEach(args) == [i \in DOMAIN args |-> ParseTrimmed(Trim(args[i]))]

\* lines 83-97, paren being the position of the `(` of the function head
FunctionNode(expr, paren) ==
  [type |-> "function",
   value |-> toUpperCase(FuncHeadName(expr)),
   children |->
     ParseEach(splitArguments(SubSeq(expr, paren + 1, findMatchingParen(expr, paren) - 1)))]

\* lines 59-67
OperatorNode(expr, match) ==
  [type |-> "operator",
   value |-> match.operator,
   children |->
     << ParseTrimmed(Trim(SubSeq(expr, 1, match.index - 1))),
        ParseTrimmed(Trim(SubSeq(expr, match.index + Len(match.operator), Len(expr)))) >>]

\* lines 56-74
OperatorOrLiteral(expr, match) ==
  IF match.found THEN OperatorNode(expr, match) ELSE LiteralNode(expr)

\* lines 34-74, on the trimmed expression
ParseTrimmed(expr) ==
  IF FuncHeadParen(expr) # 0 THEN FunctionNode(expr, FuncHeadParen(expr))
  ELSE IF isCellReference(expr) THEN ReferenceNode(expr)
  ELSE IF isLiteral(expr) THEN LiteralNode(expr)
  ELSE OperatorOrLiteral(expr, findTopLevelOperator(expr))

\* lines 31-75
parseExpression(expr) == ParseTrimmed(Trim(expr))

\* lines 19-29
parse(formula) ==
  IF formula = <<>> \/ formula[1] # "=" THEN LiteralNode(formula)
  ELSE parseExpression(Tail(formula))

(***************************************************************************)
(* The expressions parse is given: operands joined by binary operators.    *)
(***************************************************************************)
Operands == { <<"1">>, <<"A","1">>, <<"(","1","+","2",")">> }

Operators ==
  { <<"=">>, <<"<",">">>, <<"<","=">>, <<"<">>, <<"&">>, <<"+">>, <<"-">>, <<"*">>, <<"^">> }

\* the most operators of an expression
MaxOperators == 2

\* the text of operands[i..j] with operators[i..j-1] between them
RECURSIVE ExpressionText(_, _, _, _)
ExpressionText(operands, operators, i, j) ==
  IF i = j THEN operands[i]
  ELSE operands[i] \o operators[i] \o ExpressionText(operands, operators, i + 1, j)

Parse(operands, operators) ==
  /\ call = NoCall
  /\ call' = [op |-> "parse", operands |-> operands, operators |-> operators,
              node |-> parse(<<"=">> \o ExpressionText(operands, operators, 1, Len(operands)))]
  /\ UNCHANGED <<grid, pc, scope, dependencies, results, manager, mapper>>

NextParse ==
  /\ call = NoCall
  /\ \E n \in 0 .. MaxOperators :
       \E operands \in [1 .. n + 1 -> Operands], operators \in [1 .. n -> Operators] :
         Parse(operands, operators)

SpecParse == Init /\ [][NextParse]_vars

Parsed == call.op = "parse"

\* the precedence tier of an operator, 1 the lowest
Tier(operator) ==
  IF operator \in { <<"=">>, <<"<",">">>, <<"<","=">>, <<">","=">>, <<"<">>, <<">">> } THEN 1
  ELSE IF operator = <<"&">> THEN 2
  ELSE IF operator \in { <<"+">>, <<"-">> } THEN 3
  ELSE IF operator \in { <<"*">>, <<"/">> } THEN 4
  ELSE 5

\* k is the rightmost operator of the lowest tier present
LowestRightmost(operators, k) ==
  /\ \A i \in DOMAIN operators : Tier(operators[i]) >= Tier(operators[k])
  /\ \A i \in DOMAIN operators : i > k => Tier(operators[i]) > Tier(operators[k])

\* the node splits the expression at its k-th operator
SplitsAt(node, operands, operators, k) ==
  /\ node.type = "operator"
  /\ node.value = operators[k]
  /\ node.children =
       << parseExpression(ExpressionText(operands, operators, 1, k)),
          parseExpression(ExpressionText(operands, operators, k + 1, Len(operands))) >>

(***************************************************************************)
(* C19.  An expression that is not a function call, reference or literal   *)
(* is split at the top-level operator of the lowest precedence tier        *)
(* present (comparison < concatenation < additive < multiplicative <       *)
(* power), the rightmost of that tier, and the text of the operator node   *)
(* is the complete operator symbol: `<=`, `>=`, `<>` are one operator.     *)
(***************************************************************************)
C19_SplitAtLowestTier ==
  Parsed =>
    \A k \in DOMAIN call.operators :
      LowestRightmost(call.operators, k) =>
        SplitsAt(call.node, call.operands, call.operators, k)

(***************************************************************************)
(* evaluateLogicalBranch (formulaParser.ts, lines 245-297).  The values of *)
(* args are the value records of the comparison; children are counted     *)
(* from 1, so that children[1] of the source is children[2] here.          *)
(***************************************************************************)
\* the truthiness of a value: !!value
Truthy(value) ==
  IF value.type = "undefined" THEN FALSE
  ELSE IF value.type = "string" THEN value.text # <<>>
  ELSE IF value.type = "boolean" THEN value.text = <<"t","r","u","e">>
  ELSE ~value.nan /\ ~(value.int = 0 /\ value.eps = 0)

\* args[i] of the source, undefined past the end
ArgAt(args, i) == IF i + 1 \in DOMAIN args THEN args[i + 1] ELSE UndefinedValue

\* node.children[i].isActive = active
SetActive(children, i, active) ==
  [children EXCEPT ![i + 1] = ("isActive" :> active) @@ @]

\* if (node.children[i]) node.children[i].isActive = active
SetActiveIfPresent(children, i, active) ==
  IF i + 1 \in DOMAIN children THEN SetActive(children, i, active) ELSE children

\* an IF whose false branch is marked as the true branch is
FalseBranchActive_AsTrueBranch(condition) == Truthy(condition)

\* line 252: !condition
FalseBranchActive(condition) == ~Truthy(condition)

\* lines 248-254
IfBranches(args, children) ==
  IF Len(args) >= 2
    THEN SetActiveIfPresent(SetActive(children, 1, Truthy(ArgAt(args, 0))), 2,
                            FalseBranchActive(ArgAt(args, 0)))
    ELSE children

\* lines 259-269: the loop of IFS from index i
RECURSIVE IfsFrom(_, _, _)
IfsFrom(args, children, i) ==
  IF i >= Len(children) THEN children
  ELSE IF Truthy(ArgAt(args, i))
    THEN SetActiveIfPresent(SetActive(children, i, TRUE), i + 1, TRUE)
  ELSE IfsFrom(args, children, i + 2)

\* Math.floor(value) as [nan, int], for the values of the model
MathFloor(value) ==
  IF value.type = "number" THEN [nan |-> value.nan, int |-> value.int]
  ELSE IF value.type = "boolean" THEN [nan |-> FALSE, int |-> IF Truthy(value) THEN 1 ELSE 0]
  ELSE IF value.type = "string" /\ DigitRun(value.text, 1) = Len(value.text) + 1
    THEN [nan |-> FALSE, int |-> parseInt(value.text)]
  ELSE [nan |-> TRUE, int |-> 0]

\* lines 275-278
ChooseIndex(children, index) ==
  IF ~index.nan /\ index.int >= 1 /\ index.int < Len(children)
    THEN SetActive(children, index.int, TRUE)
    ELSE children

\* lines 273-279
ChooseBranches(args, children) ==
  IF Len(args) >= 2 THEN ChooseIndex(children, MathFloor(ArgAt(args, 0))) ELSE children

\* lines 285-291: the loop of SWITCH from index i
RECURSIVE SwitchFrom(_, _, _)
SwitchFrom(args, children, i) ==
  IF i >= Len(args) - 1 THEN children
  ELSE IF StrictEquals(ArgAt(args, i), ArgAt(args, 0))
    THEN SetActive(SetActive(children, i, TRUE), i + 1, TRUE)
  ELSE SwitchFrom(args, children, i + 2)

\* lines 292-295
SwitchDefault(args, children) ==
  IF Len(args) % 2 = 0 THEN SetActiveIfPresent(children, Len(children) - 1, TRUE)
  ELSE children

\* lines 283-296
SwitchBranches(args, children) ==
  IF Len(args) >= 3 THEN SwitchDefault(args, SwitchFrom(args, children, 1)) ELSE children

\* lines 246-296: the children after the switch statement
BranchesOf(funcName, args, children) ==
  IF funcName = <<"I","F">> THEN IfBranches(args, children)
  ELSE IF funcName = <<"I","F","S">> THEN IfsFrom(args, children, 0)
  ELSE IF funcName = <<"C","H","O","O","S","E">> THEN ChooseBranches(args, children)
  ELSE IF funcName = <<"S","W","I","T","C","H">> THEN SwitchBranches(args, children)
  ELSE children

\* lines 245-297
evaluateLogicalBranch(funcName, args, node) ==
  [node EXCEPT !.children = BranchesOf(funcName, args, node.children)]

(***************************************************************************)
(* The calls of evaluateLogicalBranch: a function node parsed from         *)
(* `=NAME(A1,A2,...)` and one value for each of its arguments.             *)
(***************************************************************************)
FunctionNames ==
  { <<"I","F">>, <<"I","F","S">>, <<"C","H","O","O","S","E">>,
    <<"S","W","I","T","C","H">>, <<"S","U","M">> }

ArgumentValues ==
  { BooleanValue(<<"t","r","u","e">>), BooleanValue(<<"f","a","l","s","e">>),
    NumberValue(0, 0), NumberValue(1, 0), NumberValue(2, 0), NaNValue,
    StringValue(<<>>), StringValue(<<"a">>) }

\* the most arguments of a call
MaxArgs == 4

\* A1,A2,...,An from the i-th on
RECURSIVE ArgumentList(_, _)
ArgumentList(i, n) ==
  IF i > n THEN <<>>
  ELSE (IF i > 1 THEN <<",">> ELSE <<>>) \o getAddress(i, 1) \o ArgumentList(i + 1, n)

CallText(funcName, n) == <<"=">> \o funcName \o <<"(">> \o ArgumentList(1, n) \o <<")">>

EvaluateLogicalBranch(funcName, args) ==
  /\ call = NoCall
  /\ call' = [op |-> "evaluateLogicalBranch", funcName |-> funcName, args |-> args,
              node |-> evaluateLogicalBranch(funcName, args,
                                             parse(CallText(funcName, Len(args))))]
  /\ UNCHANGED <<grid, pc, scope, dependencies, results, manager, mapper>>

NextBranch ==
  /\ call = NoCall
  /\ \E funcName \in FunctionNames, n \in 1 .. MaxArgs :
       \E args \in [1 .. n -> ArgumentValues] : EvaluateLogicalBranch(funcName, args)

SpecBranch == Init /\ [][NextBranch]_vars

\* an IF node with a true branch has been evaluated
IfEvaluated ==
  /\ call.op = "evaluateLogicalBranch"
  /\ call.funcName = <<"I","F">>
  /\ Len(call.node.children) >= 2

\* the child has been given isActive = active
IsMarked(child, active) == "isActive" \in DOMAIN child /\ child.isActive = active

(***************************************************************************)
(* C20.  Branch activation for IF: after evaluateLogicalBranch on an IF    *)
(* node the true-branch child has isActive = true and the false-branch     *)
(* child, if present, isActive = false when the condition value is truthy, *)
(* and the reverse when it is falsy; when both branches are present        *)
(* exactly one of them is active.                                          *)
(***************************************************************************)
C20_IfBranchActivation ==
  IfEvaluated =>
    /\ IsMarked(call.node.children[2], Truthy(call.args[1]))
    /\ Len(call.node.children) >= 3 =>
         /\ IsMarked(call.node.children[3], ~Truthy(call.args[1]))
         /\ call.node.children[2].isActive # call.node.children[3].isActive

\* IF(A1,A2,A3) with a falsy condition that is not the boolean false
C20_Witness ==
  /\ IfEvaluated
  /\ Len(call.node.children) = 3
  /\ call.args[1] = StringValue(<<>>)
  /\ IsMarked(call.node.children[3], TRUE)

(***************************************************************************)
(* compareRanges on a square used range: an empty reference sheet against  *)
(* a comparator with some non-empty cells, so that the differing cells     *)
(* form every pattern of up to MaxFilled cells.                            *)
(***************************************************************************)
ScanShape == <<3, 3>>

EmptyGrid(rows, cols) == [row \in 1 .. rows |-> [col \in 1 .. cols |-> EmptyCell]]

NextScan ==
  /\ call = NoCall
  /\ \E comp \in GridsOfShape(ScanShape[1], ScanShape[2]), options \in ComparisonOptions :
       CompareRanges(EmptyGrid(ScanShape[1], ScanShape[2]), comp, options)

SpecScan == Init /\ [][NextScan]_vars

\* the 0-based <<row, col>> of the i-th cell recorded in a block
CellPosition(block, i) ==
  << addressToCoords(block.referenceCells[i].address).row - 1,
     addressToCoords(block.referenceCells[i].address).col - 1 >>

\* the positions of the first n cells recorded in a block
FirstCells(block, n) == {CellPosition(block, i) : i \in 1 .. n}

\* pos is within one cell of the bounding box of a set of positions
NearBoxOf(cells, pos) ==
  /\ pos[1] >= Min({c[1] : c \in cells}) - 1
  /\ pos[1] <= Max({c[1] : c \in cells}) + 1
  /\ pos[2] >= Min({c[2] : c \in cells}) - 1
  /\ pos[2] <= Max({c[2] : c \in cells}) + 1

\* position p comes before position q in the row-major scan
ScannedBefore(p, q) == p[1] < q[1] \/ (p[1] = q[1] /\ p[2] < q[2])

\* the cells of the blocks, block after block, are in the order of the scan
InScanOrder(blocks) ==
  /\ \A b \in DOMAIN blocks : \A i \in DOMAIN blocks[b].referenceCells :
       i > 1 => ScannedBefore(CellPosition(blocks[b], i - 1), CellPosition(blocks[b], i))
  /\ \A b \in DOMAIN blocks :
       b > 1 => ScannedBefore(CellPosition(blocks[b - 1], Len(blocks[b - 1].referenceCells)),
                              CellPosition(blocks[b], 1))

\* every cell that joined a block was near the box of the cells before it
JoinedNearBox(blocks) ==
  \A b \in DOMAIN blocks : \A i \in DOMAIN blocks[b].referenceCells :
    i > 1 => NearBoxOf(FirstCells(blocks[b], i - 1), CellPosition(blocks[b], i))

\* every cell that opened a block was not near the box of the block before
OpenedAwayFromBox(blocks) ==
  \A b \in DOMAIN blocks :
    b > 1 => ~NearBoxOf(FirstCells(blocks[b - 1], Len(blocks[b - 1].referenceCells)),
                        CellPosition(blocks[b], 1))

(***************************************************************************)
(* C22.  compareRanges scans row-major with a single open block: a         *)
(* differing cell joins the open block iff it lies within the block's      *)
(* current bounding box expanded by one cell in every direction, otherwise *)
(* the open block is closed and a new one opens at that cell; blocks are   *)
(* emitted in the order they were opened, a closed block receives no       *)
(* further cell and the last open block is emitted at the end.             *)
(***************************************************************************)
C22_SingleOpenBlock ==
  Compared =>
    /\ InScanOrder(call.result.differences)
    /\ JoinedNearBox(call.result.differences)
    /\ OpenedAwayFromBox(call.result.differences)
    /\ \A b \in DOMAIN call.result.differences :
         call.result.differences[b].referenceCells # <<>>

(***************************************************************************)
(* C27.  In every DifferenceBlock of the result the bounding box contains  *)
(* all the cells of the block: startRow <= row <= endRow and startCol <=   *)
(* col <= endCol for each recorded cell, also for a cell that joined the   *)
(* block one column to the left of startCol on a later row.                *)
(***************************************************************************)
InsideBox(block, pos) ==
  /\ block.startRow <= pos[1] /\ pos[1] <= block.endRow
  /\ block.startCol <= pos[2] /\ pos[2] <= block.endCol

C27_BoxContainsCells ==
  Compared =>
    \A b \in DOMAIN call.result.differences :
      \A i \in DOMAIN call.result.differences[b].referenceCells :
        InsideBox(call.result.differences[b], CellPosition(call.result.differences[b], i))

(***************************************************************************)
(* C23.  For SWITCH, evaluateLogicalBranch marks the case node and the     *)
(* result node of the first case whose value equals the first argument and *)
(* stops; the trailing default (the last child when the argument count is  *)
(* even) is marked only if no case matches.  At most one result branch of  *)
(* the node is active afterwards.                                          *)
(***************************************************************************)
SwitchEvaluated ==
  /\ call.op = "evaluateLogicalBranch"
  /\ call.funcName = <<"S","W","I","T","C","H">>
  /\ Len(call.args) >= 3

\* the source indexes of the case values: 1, 3, ... below the last index
CaseIndexes(args) == {i \in 1 .. Len(args) - 2 : i % 2 = 1}

\* the case at source index i is the first whose value equals the first argument
FirstMatch_Case(args, i) ==
  /\ StrictEquals(ArgAt(args, i), ArgAt(args, 0))
  /\ \A j \in CaseIndexes(args) : j < i => ~StrictEquals(ArgAt(args, j), ArgAt(args, 0))

HasDefault(args) == Len(args) % 2 = 0

\* the source indexes of the children that are marked active
ActiveIndexes(children) ==
  {i \in 0 .. Len(children) - 1 : IsMarked(children[i + 1], TRUE)}

\* the source indexes of the result branches: after each case, and the default
ResultIndexes(args) ==
  {i + 1 : i \in CaseIndexes(args)} \cup (IF HasDefault(args) THEN {Len(args) - 1} ELSE {})

C23_SwitchBranch ==
  SwitchEvaluated =>
    /\ \A i \in CaseIndexes(call.args) :
         FirstMatch_Case(call.args, i) => ActiveIndexes(call.node.children) = {i, i + 1}
    /\ (\A i \in CaseIndexes(call.args) : ~FirstMatch_Case(call.args, i)) =>
         ActiveIndexes(call.node.children) =
           (IF HasDefault(call.args) THEN {Len(call.args) - 1} ELSE {})
    /\ Cardinality(ActiveIndexes(call.node.children) \cap ResultIndexes(call.args)) <= 1

(***************************************************************************)
(* parse on whole formula texts (formulaParser.ts, lines 19-29): the       *)
(* formula is kept with the parts it was put together from.                *)
(***************************************************************************)
ParseFormula(formula, parts) ==
  /\ call = NoCall
  /\ call' = [op |-> "parseFormula", formula |-> formula, parts |-> parts,
              node |-> parse(formula)]
  /\ UNCHANGED <<grid, pc, scope, dependencies, results, manager, mapper>>

\* the nodes of a tree
RECURSIVE NodesOf(_)
NodesOf(node) ==
  {node} \cup
    (IF "children" \in DOMAIN node
       THEN UNION {NodesOf(node.children[i]) : i \in DOMAIN node.children}
       ELSE {})

\* the texts of the nodes of one type
TextsOf(node, type) == {n.value : n \in {m \in NodesOf(node) : m.type = type}}

\* function calls an expression begins with
CallTexts ==
  { <<"S","U","M","(","A","1",":","A","3",")">>, <<"S","U","M","(","A","1",")">>,
    <<"M","A","X","(","1",",","B","2",")">>, <<"A","B","S","(","C","3",")">> }

\* the operand after the operator
FurtherOperands == { <<"B","1">>, <<"1">>, <<"(","1","+","2",")">> }

NextCallFirst ==
  /\ call = NoCall
  /\ \E callText \in CallTexts, operator \in Operators, operand \in FurtherOperands :
       ParseFormula(<<"=">> \o callText \o operator \o operand,
                    [callText |-> callText, operator |-> operator, operand |-> operand])

SpecCallFirst == Init /\ [][NextCallFirst]_vars

CallFirstParsed == call.op = "parseFormula" /\ "callText" \in DOMAIN call.parts

(***************************************************************************)
(* C28.  parse loses no part of the formula: for an expression that begins *)
(* with a function call followed by a top-level operator and a further     *)
(* operand (=SUM(A1:A3)+B1), the root of the tree is the operator node     *)
(* with the function call and the further operand as children, so a        *)
(* reference after the operator is a reference node of the tree.           *)
(***************************************************************************)
C28_CallThenOperator ==
  CallFirstParsed =>
    /\ call.node.type = "operator"
    /\ call.node.value = call.parts.operator
    /\ call.node.children =
         << parseExpression(call.parts.callText), parseExpression(call.parts.operand) >>
    /\ isCellReference(call.parts.operand) =>
         call.parts.operand \in TextsOf(call.node, "reference")

(***************************************************************************)
(* Formulas with an opening delimiter that is never closed: a prefix, the  *)
(* opening parenthesis or quote, and a remainder without the closing one.  *)
(***************************************************************************)
Prefixes == { <<>>, <<"1","+">>, <<"S","U","M">>, <<"A","1","&">> }

Openers == { <<"(">>, <<"\"">> }

RemainderChars == {"A", "1", ",", "+"}

\* the longest remainder
MaxRemainder == 3

Remainders == UNION {[1 .. n -> RemainderChars] : n \in 1 .. MaxRemainder}

NextMismatch ==
  /\ call = NoCall
  /\ \E prefix \in Prefixes, opener \in Openers, rest \in Remainders :
       ParseFormula(<<"=">> \o prefix \o opener \o rest,
                    [prefix |-> prefix, opener |-> opener, rest |-> rest])

SpecMismatch == Init /\ [][NextMismatch]_vars

MismatchParsed == call.op = "parseFormula" /\ "opener" \in DOMAIN call.parts

EndsWith(text, suffix) ==
  /\ Len(text) >= Len(suffix)
  /\ SubSeq(text, Len(text) - Len(suffix) + 1, Len(text)) = suffix

(***************************************************************************)
(* C24.  For a formula with a parenthesis or quote mismatch (no matching   *)
(* closing delimiter is found) parse does not throw and falls back to      *)
(* treating the remainder of the text as a single literal node: the text   *)
(* after the unmatched delimiter ends one literal node of the tree.        *)
(***************************************************************************)
C24_MismatchFallsBack ==
  MismatchParsed =>
    \E text \in TextsOf(call.node, "literal") : EndsWith(text, call.parts.rest)

(***************************************************************************)
(* KeyboardShortcutManager (formulaParser.ts, lines 363-530): the          *)
(* navigation history.  currentHistoryIndex counts from 0 as the source    *)
(* does, so navigationHistory[currentHistoryIndex + 1] is the current      *)
(* location here.                                                          *)
(***************************************************************************)
\* line 378, 100 in the source: the history holds this many locations
maxHistorySize == 3

\* the locations that are added: cells of the two sheets and of a sheet the
\* workbook does not have (any more)
Locations ==
  { [sheet |-> <<"S">>, address |-> <<"A","1">>],
    [sheet |-> <<"T">>, address |-> <<"A","1">>],
    [sheet |-> <<"X">>, address |-> <<"A","1">>] }

\* line 453: slice(0, currentHistoryIndex + 1)
Sliced_Whole(history, index) == history
Sliced(history, index) == SubSeq(history, 1, index + 1)

\* lines 453-456
Pushed(history, index, location) == Append(Sliced(history, index), location)

\* lines 459-463
HistoryAfterAdd_NoShift(history, index, location) == Pushed(history, index, location)
HistoryAfterAdd(history, index, location) ==
  IF Len(Pushed(history, index, location)) > maxHistorySize
    THEN Tail(Pushed(history, index, location))
    ELSE Pushed(history, index, location)

IndexAfterAdd(history, index, location) ==
  IF Len(Pushed(history, index, location)) > maxHistorySize THEN index ELSE index + 1

\* lines 451-464
AddToHistory(location) ==
  /\ navigationHistory' = HistoryAfterAdd(navigationHistory, currentHistoryIndex, location)
  /\ currentHistoryIndex' = IndexAfterAdd(navigationHistory, currentHistoryIndex, location)
  /\ call' = [op |-> "addToHistory", location |-> location,
              history |-> navigationHistory, index |-> currentHistoryIndex]
  /\ UNCHANGED <<grid, pc, scope, dependencies, results, mapper>>

\* lines 477-482 and 500-505: the host selects the range of the location;
\* context.sync() rejects when the workbook has no sheet of that name
Selects(location) == \E si \in DOMAIN SheetNames : SheetNames[si] = location.sheet

\* lines 469-487
NavigateBack ==
  /\ currentHistoryIndex' =
       IF currentHistoryIndex <= 0 THEN currentHistoryIndex ELSE currentHistoryIndex - 1
  /\ call' = [op |-> "navigateBack",
              result |-> /\ currentHistoryIndex > 0
                         /\ Selects(navigationHistory[currentHistoryIndex]),
              history |-> navigationHistory, index |-> currentHistoryIndex]
  /\ UNCHANGED <<grid, pc, scope, dependencies, results, navigationHistory, mapper>>

\* lines 492-510
NavigateForward ==
  /\ currentHistoryIndex' =
       IF currentHistoryIndex >= Len(navigationHistory) - 1 THEN currentHistoryIndex
       ELSE currentHistoryIndex + 1
  /\ call' = [op |-> "navigateForward",
              result |-> /\ currentHistoryIndex < Len(navigationHistory) - 1
                         /\ Selects(navigationHistory[currentHistoryIndex + 2]),
              history |-> navigationHistory, index |-> currentHistoryIndex]
  /\ UNCHANGED <<grid, pc, scope, dependencies, results, navigationHistory, mapper>>

\* lines 522-525
ClearHistory ==
  /\ navigationHistory' = <<>>
  /\ currentHistoryIndex' = -1
  /\ call' = [op |-> "clearHistory",
              history |-> navigationHistory, index |-> currentHistoryIndex]
  /\ UNCHANGED <<grid, pc, scope, dependencies, results, mapper>>

NextHistory ==
  \/ \E location \in Locations : AddToHistory(location)
  \/ NavigateBack
  \/ NavigateForward
  \/ ClearHistory

SpecHistory == Init /\ [][NextHistory]_vars

\* addToHistory was called with the current location being the last of a
\* history of maxHistorySize locations
AddedToFull ==
  /\ call.op = "addToHistory"
  /\ Len(call.history) = maxHistorySize
  /\ call.index = maxHistorySize - 1

C29_IndexInRange ==
  /\ currentHistoryIndex >= -1
  /\ currentHistoryIndex <= Len(navigationHistory) - 1
  /\ (currentHistoryIndex = -1) <=> (navigationHistory = <<>>)
  /\ call.op = "addToHistory" =>
       /\ currentHistoryIndex = Len(navigationHistory) - 1
       /\ navigationHistory[Len(navigationHistory)] = call.location
       /\ \E dropped \in 0 .. 1 :
            SubSeq(navigationHistory, 1, Len(navigationHistory) - 1) =
              SubSeq(call.history, 1 + dropped, call.index + 1)

C29_Witness ==
  /\ call.op = "addToHistory"
  /\ call.index >= 0
  /\ call.index < Len(call.history) - 1

(***************************************************************************)
(* C30.  navigateBack and navigateForward change currentHistoryIndex only  *)
(* when they return true: whenever either returns false, because there is  *)
(* no earlier or later entry or because selecting the target range in the  *)
(* host failed, the index and the history are the same as before the call. *)
(***************************************************************************)
C30_FalseLeavesIndex ==
  (call.op \in {"navigateBack", "navigateForward"} /\ ~call.result) =>
    /\ currentHistoryIndex = call.index
    /\ navigationHistory = call.history

(***************************************************************************)
(* FormulaMapper (src/unnamed/part_005).  originalColors is a sequence of  *)
(* entries in insertion order, each with its key `sheet!address` and the   *)
(* colour stored for it; colours are the hex strings of the source, ""     *)
(* being no fill.  Row and column indexes count from 0 within the used     *)
(* range, as in the source.                                                *)
(***************************************************************************)
\* lines 25-32
defaultColors ==
  [uniqueFormula |-> "#FFE699", copiedFormula |-> "#C6E0B4",
   externalReference |-> "#F4B084", noReferences |-> "#BDD7EE",
   hardcodedValue |-> "#E7E6E6", noFill |-> ""]

\* the names the two worksheets of the workbook have when the formula map
\* is examined: the second name begins with the first one and a `!`
MapSheetNames == << <<"S">>, <<"S","!">> >>

\* worksheets.getItem(sheetName) of lines 45 and 170
MapSheet(sheetName) == CHOOSE si \in DOMAIN MapSheetNames : MapSheetNames[si] = sheetName

\* lines 278-281
FormulaMapper_getAddress(row, col) == numberToColumn(col + 1) \o NumberToText(row + 1)

\* lines 208-209 and 178-179
ColorKey(sheetName, row, col) == sheetName \o <<"!">> \o FormulaMapper_getAddress(row, col)

\* lines 207-217, the k-th cell of the range in row-major order onwards
RECURSIVE StoreFrom(_, _, _, _)
StoreFrom(colors, sheetName, range, k) ==
  IF k >= rowCount(range) * columnCount(range) THEN colors
  ELSE StoreFrom(
         IF Has(colors, ColorKey(sheetName, k \div columnCount(range), k % columnCount(range)))
           THEN colors
           ELSE Append(colors, [key |-> ColorKey(sheetName, k \div columnCount(range),
                                                            k % columnCount(range)),
                                value |-> "#FFFFFF"]),
         sheetName, range, k + 1)

\* lines 203-219
storeOriginalColors(colors, range, sheetName) == StoreFrom(colors, sheetName, range, 0)

\* /\$?[A-Z]+\$?\d+/ at position i: the position after the match, 0 for none
MapperCellEnd(f, i) ==
  RowEnd(f, NonEmptyRun(SkipDollar(f, i), UpperRun(f, SkipDollar(f, i))))

\* line 233: replace(/\$?[A-Z]+\$?\d+/g, 'REF')
RECURSIVE RefFrom(_, _)
RefFrom(formula, i) ==
  IF i > Len(formula) THEN <<>>
  ELSE IF MapperCellEnd(formula, i) # 0
    THEN <<"R","E","F">> \o RefFrom(formula, MapperCellEnd(formula, i))
    ELSE <<formula[i]>> \o RefFrom(formula, i + 1)

\* line 236: replace(/REF:REF/g, 'RANGE')
RECURSIVE RangeFrom(_, _)
RangeFrom(text, i) ==
  IF i > Len(text) THEN <<>>
  ELSE IF SubSeq(text, i, Min({i + 6, Len(text)})) = <<"R","E","F",":","R","E","F">>
    THEN <<"R","A","N","G","E">> \o RangeFrom(text, i + 7)
    ELSE <<text[i]>> \o RangeFrom(text, i + 1)

\* !formula || !formula.startsWith('=')
NotFormula(formula) == formula = <<>> \/ formula[1] # "="

\* lines 224-239
FormulaMapper_normalizeFormula(formula) ==
  IF NotFormula(formula) THEN formula ELSE RangeFrom(RefFrom(formula, 1), 1)

\* lines 244-260
hasExternalReference(formula) ==
  /\ ~NotFormula(formula)
  /\ \/ Includes(formula, "[") /\ Includes(formula, "]")
     \/ Includes(formula, "!")

\* lines 265-273: /[A-Z]+\d+/.test(formula)
hasAnyReferences(formula) ==
  /\ ~NotFormula(formula)
  /\ \E i \in DOMAIN formula :
       /\ UpperRun(formula, i) > i
       /\ DigitRun(formula, UpperRun(formula, i)) > UpperRun(formula, i)

\* formulas[row][col] of the used range of sheet si
FormulaIn(g, si, range, row, col) == FormulaAt(g, si, range.top + row, range.left + col)

\* lines 58-60: the cells of the range, as <<row, col>>
RangeIndexes(range) == (0 .. rowCount(range) - 1) \X (0 .. columnCount(range) - 1)

\* lines 76-84 and 91: entry.count === 1 for the entry of the cell's formula
IsUnique(g, si, range, row, col) ==
  Cardinality({rc \in RangeIndexes(range) :
                 /\ ~NotFormula(FormulaIn(g, si, range, rc[1], rc[2]))
                 /\ FormulaMapper_normalizeFormula(FormulaIn(g, si, range, rc[1], rc[2]))
                      = FormulaMapper_normalizeFormula(FormulaIn(g, si, range, row, col))}) = 1

\* lines 102-120
FormulaColor(formula, isUnique, colors, analyzeUnique) ==
  IF analyzeUnique /\ hasExternalReference(formula) /\ colors.externalReference # ""
    THEN colors.externalReference
  ELSE IF analyzeUnique /\ ~hasAnyReferences(formula) /\ colors.noReferences # ""
    THEN colors.noReferences
  ELSE IF isUnique /\ colors.uniqueFormula # "" THEN colors.uniqueFormula
  ELSE IF ~isUnique /\ colors.copiedFormula # "" THEN colors.copiedFormula
  ELSE ""

\* lines 62-73 and 122-125: the colour the cell at <<row, col>> of the range
\* makes the map assign, "" when it assigns none
AssignedColor(g, si, range, row, col, colors, analyzeUnique) ==
  IF NotFormula(FormulaIn(g, si, range, row, col))
    THEN (IF FormulaIn(g, si, range, row, col) # <<>> THEN colors.hardcodedValue ELSE "")
    ELSE FormulaColor(FormulaIn(g, si, range, row, col), IsUnique(g, si, range, row, col),
                      colors, analyzeUnique)

\* sheet.getRangeByIndexes(row, col, 1, 1): the cell of the sheet at these
\* indexes, which count from the first cell of the sheet
getRangeByIndexes(si, row, col) == <<si, row + 1, col + 1>>

\* the fill colours after the two passes of lines 58-137
FillAfterMap(f, g, si, range, colors, analyzeUnique) ==
  [cell \in DOMAIN f |->
     IF /\ cell[1] = si
        /\ <<cell[2] - 1, cell[3] - 1>> \in RangeIndexes(range)
        /\ AssignedColor(g, si, range, cell[2] - 1, cell[3] - 1, colors, analyzeUnique) # ""
       THEN AssignedColor(g, si, range, cell[2] - 1, cell[3] - 1, colors, analyzeUnique)
       ELSE f[cell]]

\* lines 39-140
ApplyFormulaMap(sheetName, colors, analyzeUnique) ==
  /\ originalColors' =
       storeOriginalColors(originalColors, getUsedRange(grid, MapSheet(sheetName)), sheetName)
  /\ fill' = FillAfterMap(fill, grid, MapSheet(sheetName),
                          getUsedRange(grid, MapSheet(sheetName)), colors, analyzeUnique)
  /\ call' = [op |-> "applyFormulaMap", sheetName |-> sheetName,
              analyzeUnique |-> analyzeUnique, fill |-> fill, colors |-> originalColors]
  /\ UNCHANGED <<grid, pc, scope, dependencies, results, manager>>

\* lines 177-188
FillRestored(f, colors, sheetName, si, range) ==
  [cell \in DOMAIN f |->
     IF /\ cell[1] = si
        /\ <<cell[2] - 1, cell[3] - 1>> \in RangeIndexes(range)
        /\ Has(colors, ColorKey(sheetName, cell[2] - 1, cell[3] - 1))
       THEN Get(colors, ColorKey(sheetName, cell[2] - 1, cell[3] - 1)).value
       ELSE f[cell]]

\* key.startsWith(prefix)
startsWith(key, prefix) == Len(key) >= Len(prefix) /\ SubSeq(key, 1, Len(prefix)) = prefix

\* lines 193-197
WithoutSheet(colors, sheetName) ==
  SelectSeq(colors, LAMBDA entry : ~startsWith(entry.key, sheetName \o <<"!">>))

\* the last call, when it mapped this sheet
MappedBefore(sheetName) == call.op = "applyFormulaMap" /\ call.sheetName = sheetName

\* lines 166-198
RemoveFormulaMap(sheetName) ==
  /\ fill' = FillRestored(fill, originalColors, sheetName, MapSheet(sheetName),
                          getUsedRange(grid, MapSheet(sheetName)))
  /\ originalColors' = WithoutSheet(originalColors, sheetName)
  /\ call' = [op |-> "removeFormulaMap", sheetName |-> sheetName, colors |-> originalColors,
              mapped |-> MappedBefore(sheetName),
              fill |-> IF MappedBefore(sheetName) THEN call.fill ELSE fill]
  /\ UNCHANGED <<grid, pc, scope, dependencies, results, manager>>

\* the texts the cells are given when the formula map is examined
MapFormulas ==
  { <<"=","A","1">>, <<"=","B","1">>, <<"=","1">>, <<"=","T","!","A","1">>, <<"1","0">> }

\* a fill colour the user gives a cell, and the most cells so formatted
UserColor == "#FF0000"
MaxPainted == 1

\* the user gives a cell without fill a fill colour
SetFillColor(cell, color) ==
  /\ fill[cell] = ""
  /\ Cardinality({c \in Cells : fill[c] # ""}) < MaxPainted
  /\ fill' = [fill EXCEPT ![cell] = color]
  /\ UNCHANGED <<grid, pc, scope, dependencies, results, call, manager, originalColors>>

\* the workbook is edited, then mapped and unmapped in any order
NextMap ==
  \/ call = NoCall /\ \E cell \in Cells, formula \in MapFormulas : EnterFormula(cell, formula)
  \/ call = NoCall /\ \E cell \in Cells : SetFillColor(cell, UserColor)
  \/ \E si \in DOMAIN MapSheetNames, analyzeUnique \in BOOLEAN :
       ApplyFormulaMap(MapSheetNames[si], defaultColors, analyzeUnique)
  \/ \E si \in DOMAIN MapSheetNames : RemoveFormulaMap(MapSheetNames[si])

SpecMap == Init /\ [][NextMap]_vars

\* the colour stored for a key, NoColor when the table has no such key
NoColor == "none"
StoredColor(colors, key) == IF Has(colors, key) THEN Get(colors, key).value ELSE NoColor

\* the keys of a sheet: one for every address of a cell
KeysOfSheet(sheetName) ==
  {ColorKey(sheetName, row, col) : row \in 0 .. MaxRow - 1, col \in 0 .. MaxCol - 1}

(***************************************************************************)
(* C25.  The original-colour table keyed by `sheet!address` is populated   *)
(* on first highlight and cleared on remove-highlight: an entry once       *)
(* stored is not overwritten by later applyFormulaMap calls; after         *)
(* removeFormulaMap(sheet) the table holds no key of that sheet, and the   *)
(* entries of every other sheet are unchanged.                             *)
(***************************************************************************)
C25_ColorTable ==
  /\ call.op = "applyFormulaMap" =>
       \A i \in DOMAIN call.colors :
         StoredColor(originalColors, call.colors[i].key) = call.colors[i].value
  /\ call.op = "removeFormulaMap" =>
       /\ \A key \in KeysOfSheet(call.sheetName) : ~Has(originalColors, key)
       /\ \A si \in DOMAIN MapSheetNames :
            MapSheetNames[si] # call.sheetName =>
              \A key \in KeysOfSheet(MapSheetNames[si]) :
                StoredColor(originalColors, key) = StoredColor(call.colors, key)

(***************************************************************************)
(* C26.  Apply/remove round trip of the formula map: for every cell of    *)
(* the sheet's used range and any fill colour it had before                *)
(* applyFormulaMap, after applyFormulaMap followed by removeFormulaMap on  *)
(* that sheet the cell's fill colour is the colour it had before.          *)
(***************************************************************************)
C26_RoundTrip ==
  (call.op = "removeFormulaMap" /\ call.mapped) =>
    \A cell \in Cells :
      /\ cell[1] = MapSheet(call.sheetName)
      /\ cell[2] >= getUsedRange(grid, cell[1]).top
      /\ cell[2] <= getUsedRange(grid, cell[1]).bottom
      /\ cell[3] >= getUsedRange(grid, cell[1]).left
      /\ cell[3] <= getUsedRange(grid, cell[1]).right
      => fill[cell] = call.fill[cell]

====
